---------------------------- MODULE Spec2Model ----------------------------
(***************************************************************************)
(* Model of the MON monitor (catch-mon/mon_monitor): the alert engine      *)
(* (detector.py over storage.py), the concurrent collector                 *)
(* (collector.collect_all), the per-venue acquisition                      *)
(* (collector.collect_venue) with its helpers, the scheduler (cli.py), the *)
(* calculator's pure functions and the dashboard overview (web/server.py). *)
(*                                                                         *)
(* The specifications share the variables; each leaves the variables of    *)
(* the other parts at their initial value:                                 *)
(*   Spec         the alert engine: detection passes within one second     *)
(*   SpecWindow   the alert engine: detection passes as time goes by       *)
(*   SpecDeclared the alert engine under the thresholds config.py declares *)
(*   SpecStreak   the alert engine with the two previous passes on record  *)
(*   SpecCollect  collect_all: thread pool, sequential timed waits         *)
(*   SpecVenue    collect_venue: verification, sub-fetches, enrichment     *)
(*   SpecResolve  _okx_resolve_base_url: the choice of the OKX endpoint    *)
(*   SpecGet      _get: one GET with retries (SpecGetFair: with fairness)  *)
(*   SpecDaemon   run_daemon and run_once around run_once_cycle            *)
(*                (SpecDaemonFair: the main thread keeps stepping)         *)
(*   SpecImpact   calculator.calc_impact_cost on bounded order books      *)
(*   SpecBaselines detector.compute_baselines on bounded histories         *)
(*   SpecEvaluators two processes updating one consecutive counter         *)
(*   SpecKeys     the counter and dedupe keys of the evaluators            *)
(*   SpecDedupe   Storage.save_alert and Storage.check_dedupe over time    *)
(*   SpecDepth    order-book normalisation and calc_depth_within_pct       *)
(*   SpecPctChange enrich_snapshot completing the ticker's pct_change      *)
(*   SpecOverview web/server.py get_overview over metrics_snapshot rows    *)
(*   SpecCycle    run_once_cycle for two venues over the stored tables     *)
(*                                                                         *)
(* Optional values (Python None) are sets: {} is None, {x} is the value x. *)
(* Strings that are concatenated into keys are sequences of tokens.        *)
(***************************************************************************)
EXTENDS Integers, Sequences, FiniteSets, TLC

VARIABLES
    \* ---- alert engine (storage tables and the clock) ----
    alert_counters,   \* table alert_counters: counter_key -> consecutive_count
    alerts,           \* table alerts: dedupe_key -> its rows, in insertion order
    now,              \* wall clock, seconds (SQLite datetime('now'))
    thresholds,       \* config.thresholds, as the evaluators read it
    lastRun,          \* observation of the latest detection pass
    streak,           \* observation: breaches in a row since start/normal/alert
    run3,             \* observation: breaches in a row since start/normal, mod 3
    \* ---- collect_all ----
    ca_pc,            \* position of the calling thread
    ca_cfg,           \* collect_workers, venue_timeout_seconds, venue order
    futures,          \* venue -> future of the submitted collect_venue
    results,          \* the dict collect_all builds and returns
    ca_clock,         \* elapsed time since collect_all was entered
    wait_start,       \* time at which the current future.result wait began
    ca_i,             \* index into venue_items of the wait loop
    \* ---- collect_venue ----
    cv_pc,            \* position inside collect_venue
    cv_venue,         \* venue_name argument
    snapshot,         \* the VenueSnapshot under construction
    cv_local,         \* locals: ct_val, ob_raw, the verify reason
    cv_obs,           \* observation: outcome of every sub-fetch attempted
    \* ---- _okx_resolve_base_url ----
    rs_pc,            \* position inside _okx_resolve_base_url
    base_url,         \* base_url argument (the configured endpoint)
    rs_i,             \* index of the for loop over the candidates
    rs_calls,         \* observation: endpoints _okx_verify was called with
    rs_verify,        \* (ok, reason) of the _okx_verify call just made
    attempts,         \* local list attempts
    final_reason,     \* local final_reason
    resolved,         \* the returned (endpoint, reason); attempts is above
    \* ---- _get ----
    get_pc,           \* position inside _get
    attempt,          \* loop variable of for attempt in range(MAX_RETRIES)
    last_error,       \* local last_error
    responses,        \* observation: outcome of every session.get, in order
    sleeps,           \* observation: argument of every time.sleep, in order
    get_result,       \* how _get ended: the value returned or what it raised
    \* ---- run_daemon / run_once ----
    dm_pc,            \* position of the main thread
    dm_mode,          \* "run_daemon" or "run_once"
    schedule_seconds, \* config.schedule_seconds
    _shutdown,        \* module global _shutdown
    runtime,          \* table runtime_state, the keys the CLI writes
    pos,              \* position inside run_once_cycle: step and venue index
    events,           \* observation: steps the current cycle has completed
    dm_exc,           \* the exception run_once_cycle raised, if it did
    wait_left,        \* iterations left in the inter-cycle wait loop
    starts,           \* observation: per cycle started, the flag at the loop
                      \* test before it and the flag when it started
    ended,            \* observation: how every finished cycle ended
    \* ---- alert engine, cycle history ----
    recent,           \* observation: the rules whose condition held in the
                      \* pass before the latest one and in the one before that
    \* ---- one call of a function of calculator.py, detector.py, server.py ----
    pf_call,          \* the function called and its arguments
    pf_ret,           \* what the call returned, once it has
    \* ---- _check_with_consecutive run by several processes on one database ----
    ev_pc,            \* per process: position inside _check_with_consecutive
    ev_local,         \* per process: condition_met, current
    ev_count,         \* per process: evaluations begun
    ev_serial,        \* observation: the count the evaluations give when each
                      \* takes effect as a whole at its first write
    \* ---- run_once_cycle: persistence, baselines, detection ----
    cy_pc,            \* position inside run_once_cycle
    metrics_snapshot, \* table metrics_snapshot: its rows, the id is the index
    alert_rows,       \* table alerts, the columns dedupe_key and snapshot_id
    cy                \* locals: snapshots, snapshot_ids, baselines, all_alerts

detVars == <<alert_counters, alerts, now, thresholds, lastRun, streak, run3>>
caVars  == <<ca_pc, ca_cfg, futures, results, ca_clock, wait_start, ca_i>>
cvVars  == <<cv_pc, cv_venue, snapshot, cv_local, cv_obs>>
rsVars  == <<rs_pc, base_url, rs_i, rs_calls, rs_verify, attempts, final_reason,
             resolved>>
getVars == <<get_pc, attempt, last_error, responses, sleeps, get_result>>
dmVars  == <<dm_pc, dm_mode, schedule_seconds, _shutdown, runtime, pos, events,
             dm_exc, wait_left, starts, ended>>
pfVars  == <<pf_call, pf_ret>>
evVars  == <<ev_pc, ev_local, ev_count, ev_serial>>
cyVars  == <<cy_pc, metrics_snapshot, alert_rows, cy>>
restVars == <<pfVars, evVars, cyVars>>
auxVars == <<rsVars, getVars, dmVars, recent, restVars>>
vars    == <<detVars, caVars, cvVars, auxVars>>

None == {}
Some(x) == {x}
IsNone(o) == o = {}
Val(o) == CHOOSE x \in o : TRUE

(***************************************************************************)
(*                         ALERT ENGINE (detector.py)                      *)
(***************************************************************************)

\* ---- bounds of the alert-engine model ----
MaxNow == 3            \* the clock runs 0 .. MaxNow
MaxLag == 1            \* seconds that may pass between dedupe check and insert
DedupeWindow == 1      \* config.dedupe_window_seconds, in clock units
MaxRowsPerKey == 2     \* cap on the alerts rows kept per dedupe key

\* ---- program constants ----
CONSECUTIVE_THRESHOLD == 3

\* config.venues of the alert-engine model: venue name -> symbol.
DetVenues == {<<"binance">>}
SymbolOf(v) == <<"MON">>

Rules123 == {"depth_shrink", "spread_widen", "impact_cost_up"}
AllRules == Rules123 \cup {"insufficient_liquidity", "volume_spike"}

\* f"{rule}:{venue}:{symbol}": counter_key and dedupe_key are built alike.
key_without_venue(rule, venue, symbol) == <<rule, ":">> \o symbol

Key(rule, venue, symbol) == <<rule, ":">> \o venue \o <<":">> \o symbol
AllKeys == {Key(r, v, SymbolOf(v)) : r \in AllRules, v \in DetVenues}

\* ThresholdsConfig as config.py declares it; multipliers are kept times ten
\* (0.7 -> 7, 2.0 -> 20) so that the comparisons stay in the integers.
ThresholdsConfig ==
    [depth_drop_mult_x10 |-> 7, spread_mult_x10 |-> 20,
     slip_mult_x10 |-> 20, volume_spike_mult_x10 |-> 20]

\* The thresholds the evaluators are written against: ThresholdsConfig plus
\* the gap percentage check_insufficient_liquidity reads (20 in the tests'
\* comments).  config.py does not declare that field.
ConfiguredThresholds ==
    [f \in DOMAIN ThresholdsConfig \cup {"insufficient_liq_gap_pct"} |->
        IF f = "insufficient_liq_gap_pct" THEN 20 ELSE ThresholdsConfig[f]]

\* ---- storage.py: table alert_counters ----
get_consecutive_count(tbl, k) == IF k \in DOMAIN tbl THEN tbl[k] ELSE 0

update_consecutive_count(tbl, k, c) ==
    [x \in DOMAIN tbl \cup {k} |-> IF x = k THEN c ELSE tbl[x]]

reset_consecutive_count(tbl, k) == update_consecutive_count(tbl, k, 0)

\* ---- storage.py: table alerts (rows grouped by dedupe_key) ----
RowsOf(tab, k) == IF k \in DOMAIN tab THEN tab[k] ELSE <<>>

check_dedupe_ignores_window(tab, k, window, t) == FALSE

check_dedupe_by_ts_utc(tab, k, window, t) ==
    Cardinality({i \in DOMAIN RowsOf(tab, k) :
                    RowsOf(tab, k)[i].ts_utc >= t - window}) > 0

check_dedupe(tab, k, window, t) ==
    Cardinality({i \in DOMAIN RowsOf(tab, k) :
                    RowsOf(tab, k)[i].created_at >= t - window}) > 0

save_alert(tab, alert, t) ==
    [x \in DOMAIN tab \cup {alert.dedupe_key} |->
        IF x = alert.dedupe_key
        THEN Append(RowsOf(tab, x), [created_at |-> t, ts_utc |-> alert.ts_utc])
        ELSE tab[x]]

\* ---- detector.py ----
cwc_no_reset_after_alert(tbl, k, condition_met) ==
    IF condition_met
    THEN LET new_count == get_consecutive_count(tbl, k) + 1
         IN  [tbl |-> update_consecutive_count(tbl, k, new_count),
              fire |-> new_count >= CONSECUTIVE_THRESHOLD]
    ELSE [tbl |-> reset_consecutive_count(tbl, k), fire |-> FALSE]

cwc_keep_on_normal(tbl, k, condition_met) ==
    IF condition_met
    THEN LET new_count == get_consecutive_count(tbl, k) + 1
             t1 == update_consecutive_count(tbl, k, new_count)
         IN  IF new_count >= CONSECUTIVE_THRESHOLD
             THEN [tbl |-> reset_consecutive_count(t1, k), fire |-> TRUE]
             ELSE [tbl |-> t1, fire |-> FALSE]
    ELSE [tbl |-> tbl, fire |-> FALSE]

cwc_reset_above_threshold(tbl, k, condition_met) ==
    IF condition_met
    THEN LET new_count == get_consecutive_count(tbl, k) + 1
             t1 == update_consecutive_count(tbl, k, new_count)
         IN  IF new_count > CONSECUTIVE_THRESHOLD
             THEN [tbl |-> reset_consecutive_count(t1, k), fire |-> TRUE]
             ELSE [tbl |-> t1, fire |-> FALSE]
    ELSE [tbl |-> reset_consecutive_count(tbl, k), fire |-> FALSE]

cwc_restart_at_one(tbl, k, condition_met) ==
    IF condition_met
    THEN LET new_count == get_consecutive_count(tbl, k) + 1
             t1 == update_consecutive_count(tbl, k, new_count)
         IN  IF new_count >= CONSECUTIVE_THRESHOLD
             THEN [tbl |-> update_consecutive_count(t1, k, 1), fire |-> TRUE]
             ELSE [tbl |-> t1, fire |-> FALSE]
    ELSE [tbl |-> reset_consecutive_count(tbl, k), fire |-> FALSE]

check_with_consecutive(tbl, k, condition_met) ==
    IF condition_met
    THEN LET new_count == get_consecutive_count(tbl, k) + 1
             t1 == update_consecutive_count(tbl, k, new_count)
         IN  IF new_count >= CONSECUTIVE_THRESHOLD
             THEN [tbl |-> reset_consecutive_count(t1, k), fire |-> TRUE]
             ELSE [tbl |-> t1, fire |-> FALSE]
    ELSE [tbl |-> reset_consecutive_count(tbl, k), fire |-> FALSE]

get_depth_total(snap) ==
    IF IsNone(snap.orderbook) THEN None
    ELSE LET ob == Val(snap.orderbook)
         IN  IF ~IsNone(ob.depth_1pct_usdt_bid) /\ ~IsNone(ob.depth_1pct_usdt_ask)
             THEN Some(Val(ob.depth_1pct_usdt_bid) + Val(ob.depth_1pct_usdt_ask))
             ELSE None

MkAlert(type, snap, sev) ==
    [alert_type |-> type, venue |-> snap.venue, symbol |-> snap.symbol,
     severity |-> sev, ts_utc |-> snap.ts_utc,
     dedupe_key |-> Key(type, snap.venue, snap.symbol)]

\* An evaluator's outcome: the counter table it leaves, the Alert it returns
\* (None or one), and whether it reached the comparison and what it found.
EarlyReturn(tbl) == [tbl |-> tbl, alert |-> None, cond |-> None]

Confirmed(type, snap, tbl, condition) ==
    LET c == check_with_consecutive(tbl, Key(type, snap.venue, snap.symbol), condition)
    IN  [tbl |-> c.tbl,
         alert |-> IF c.fire THEN Some(MkAlert(type, snap, "warn")) ELSE None,
         cond |-> Some(condition)]

cds_reset_on_absent(snap, base, th, tbl) ==
    IF base.warming_up THEN EarlyReturn(tbl)
    ELSE IF IsNone(snap.orderbook) THEN EarlyReturn(tbl)
    ELSE IF IsNone(base.depth_1pct_total_median) THEN EarlyReturn(tbl)
    ELSE IF IsNone(get_depth_total(snap))
         THEN EarlyReturn(reset_consecutive_count(tbl,
                              Key("depth_shrink", snap.venue, snap.symbol)))
    ELSE Confirmed("depth_shrink", snap, tbl,
            Val(get_depth_total(snap)) * 10
              < Val(base.depth_1pct_total_median) * th.depth_drop_mult_x10)

check_depth_shrink(snap, base, th, tbl) ==
    IF base.warming_up THEN EarlyReturn(tbl)
    ELSE IF IsNone(snap.orderbook) THEN EarlyReturn(tbl)
    ELSE IF IsNone(base.depth_1pct_total_median) THEN EarlyReturn(tbl)
    ELSE IF IsNone(get_depth_total(snap)) THEN EarlyReturn(tbl)
    ELSE Confirmed("depth_shrink", snap, tbl,
            Val(get_depth_total(snap)) * 10
              < Val(base.depth_1pct_total_median) * th.depth_drop_mult_x10)

check_spread_widen(snap, base, th, tbl) ==
    IF base.warming_up THEN EarlyReturn(tbl)
    ELSE IF IsNone(snap.orderbook) THEN EarlyReturn(tbl)
    ELSE IF IsNone(base.spread_bps_median) THEN EarlyReturn(tbl)
    ELSE IF IsNone(Val(snap.orderbook).spread_bps) THEN EarlyReturn(tbl)
    ELSE Confirmed("spread_widen", snap, tbl,
            Val(Val(snap.orderbook).spread_bps) * 10
              > Val(base.spread_bps_median) * th.spread_mult_x10)

\* slip_values of check_impact_cost_up: the n2 slippages that are present.
SlipValues(ob) ==
    {Val(Val(i).slip_bps) : i \in {j \in {ob.impact_buy_n2, ob.impact_sell_n2} :
                                    ~IsNone(j) /\ ~IsNone(Val(j).slip_bps)}}

Max(S) == CHOOSE x \in S : \A y \in S : y <= x

check_impact_cost_up(snap, base, th, tbl) ==
    IF base.warming_up THEN EarlyReturn(tbl)
    ELSE IF IsNone(snap.orderbook) THEN EarlyReturn(tbl)
    ELSE IF IsNone(base.slip_bps_n2_median) THEN EarlyReturn(tbl)
    ELSE IF SlipValues(Val(snap.orderbook)) = {} THEN EarlyReturn(tbl)
    ELSE Confirmed("impact_cost_up", snap, tbl,
            Max(SlipValues(Val(snap.orderbook))) * 10
              > Val(base.slip_bps_n2_median) * th.slip_mult_x10)

\* The four impact results in the order check_insufficient_liquidity walks them.
ImpactOrder(ob) ==
    <<ob.impact_buy_n2, ob.impact_sell_n2, ob.impact_buy_n1, ob.impact_sell_n1>>

\* gap_pct > pct, with gap_pct = shortfall / target * 100 if target > 0 else 0.
GapExceeds(impact, pct) ==
    IF impact.target_notional > 0
    THEN impact.shortfall * 100 > pct * impact.target_notional
    ELSE 0 > pct

Flagged(ob) ==
    {i \in 1..4 : ~IsNone(ImpactOrder(ob)[i])
                  /\ Val(ImpactOrder(ob)[i]).insufficient_liquidity}

cil_buy_n2_only(snap, th) ==
    IF IsNone(snap.orderbook) THEN [alert |-> None, raised |-> FALSE]
    ELSE LET ob == Val(snap.orderbook)
         IN  IF 1 \in Flagged(ob)
                /\ GapExceeds(Val(ImpactOrder(ob)[1]), th.insufficient_liq_gap_pct)
             THEN [alert |-> Some(MkAlert("insufficient_liquidity", snap, "critical")),
                   raised |-> FALSE]
             ELSE [alert |-> None, raised |-> FALSE]

\* check_insufficient_liquidity(snapshot, config): no storage, no baseline.
\* Reading a threshold field the configuration lacks raises AttributeError,
\* which happens at the first flagged impact result.
check_insufficient_liquidity(snap, th) ==
    IF IsNone(snap.orderbook) THEN [alert |-> None, raised |-> FALSE]
    ELSE LET ob == Val(snap.orderbook)
         IN  IF Flagged(ob) = {} THEN [alert |-> None, raised |-> FALSE]
             ELSE IF "insufficient_liq_gap_pct" \notin DOMAIN th
             THEN [alert |-> None, raised |-> TRUE]
             ELSE IF \E i \in Flagged(ob) :
                        GapExceeds(Val(ImpactOrder(ob)[i]), th.insufficient_liq_gap_pct)
             THEN [alert |-> Some(MkAlert("insufficient_liquidity", snap, "critical")),
                   raised |-> FALSE]
             ELSE [alert |-> None, raised |-> FALSE]

cvs_ignores_warming_up(snap, base, th) ==
    IF IsNone(snap.ticker) THEN None
    ELSE IF IsNone(base.volume_24h_mean_7d) THEN None
    ELSE IF IsNone(Val(snap.ticker).quote_volume_24h) THEN None
    ELSE IF Val(Val(snap.ticker).quote_volume_24h) * 10
              <= Val(base.volume_24h_mean_7d) * th.volume_spike_mult_x10
    THEN None
    ELSE Some(MkAlert("volume_spike", snap, "info"))

check_volume_spike(snap, base, th) ==
    IF base.warming_up THEN None
    ELSE IF IsNone(snap.ticker) THEN None
    ELSE IF IsNone(base.volume_24h_mean_7d) THEN None
    ELSE IF IsNone(Val(snap.ticker).quote_volume_24h) THEN None
    ELSE IF Val(Val(snap.ticker).quote_volume_24h) * 10
              <= Val(base.volume_24h_mean_7d) * th.volume_spike_mult_x10
    THEN None
    ELSE Some(MkAlert("volume_spike", snap, "info"))

\* The list comprehension "for alert in checks: skip None, skip duplicates".
RECURSIVE FilterAlerts(_, _, _, _)
FilterAlerts(checks, tab, window, t) ==
    IF checks = <<>> THEN <<>>
    ELSE LET rest == FilterAlerts(Tail(checks), tab, window, t)
             a == Head(checks)
         IN  IF IsNone(a) THEN rest
             ELSE IF check_dedupe(tab, Val(a).dedupe_key, window, t) THEN rest
             ELSE <<Val(a)>> \o rest

\* The body of run_all_checks below its missing_market test: the five
\* evaluators run first, in order, threading the counter table; then the
\* non-None results pass the dedupe filter.  The record also carries what
\* each evaluator found (r1, r2, r3, produced).
run_checks(snap, base, th, tbl, tab, window, t) ==
    LET r1 == check_depth_shrink(snap, base, th, tbl)
        r2 == check_spread_widen(snap, base, th, r1.tbl)
        r3 == check_impact_cost_up(snap, base, th, r2.tbl)
        r4 == check_insufficient_liquidity(snap, th)
        r5 == check_volume_spike(snap, base, th)
        checks == <<r1.alert, r2.alert, r3.alert, r4.alert, r5>>
        conds == [r \in Rules123 |->
                    CASE r = "depth_shrink" -> r1.cond
                      [] r = "spread_widen" -> r2.cond
                      [] r = "impact_cost_up" -> r3.cond]
    IN  IF r4.raised
        THEN [tbl |-> r3.tbl, returned |-> <<>>, raised |-> TRUE,
              produced |-> {Val(a) : a \in {r1.alert, r2.alert, r3.alert} \ {None}},
              conds |-> conds]
        ELSE [tbl |-> r3.tbl,
              returned |-> FilterAlerts(checks, tab, window, t),
              raised |-> FALSE,
              produced |-> {Val(checks[i]) : i \in {j \in 1..5 : ~IsNone(checks[j])}},
              conds |-> conds]

run_all_checks_unfiltered(snap, base, th, tbl, tab, window, t) ==
    IF snap.missing_market
    THEN [tbl |-> tbl, returned |-> <<>>, raised |-> FALSE, produced |-> {},
          conds |-> [r \in Rules123 |-> None]]
    ELSE run_checks(snap, base, th, tbl, tab, 0 - 1, t)

missing_market_resets_counters(snap, base, th, tbl, tab, window, t) ==
    IF snap.missing_market
    THEN [tbl |-> [k \in DOMAIN tbl |-> 0], returned |-> <<>>, raised |-> FALSE,
          produced |-> {}, conds |-> [r \in Rules123 |-> None]]
    ELSE run_checks(snap, base, th, tbl, tab, window, t)

\* run_all_checks: "if snapshot.missing_market: return []" comes before any
\* evaluator and any storage call.
run_all_checks(snap, base, th, tbl, tab, window, t) ==
    IF snap.missing_market
    THEN [tbl |-> tbl, returned |-> <<>>, raised |-> FALSE, produced |-> {},
          conds |-> [r \in Rules123 |-> None]]
    ELSE run_checks(snap, base, th, tbl, tab, window, t)

RECURSIVE SaveAll(_, _, _)
SaveAll(tab, as, t) ==
    IF as = <<>> THEN tab ELSE SaveAll(save_alert(tab, Head(as), t), Tail(as), t)

\* ---- inputs of a detection pass ----
Impact(slip, insuf, shortfall, target) ==
    [slip_bps |-> slip, insufficient_liquidity |-> insuf, shortfall |-> shortfall,
     target_notional |-> target, filled_notional |-> target - shortfall]

OrderBook(bid, ask, spread, b2, s2, b1, s1) ==
    [depth_1pct_usdt_bid |-> bid, depth_1pct_usdt_ask |-> ask, spread_bps |-> spread,
     impact_buy_n2 |-> b2, impact_sell_n2 |-> s2,
     impact_buy_n1 |-> b1, impact_sell_n1 |-> s1]

Ticker(vol) == [quote_volume_24h |-> vol]

Snap(v, ts, missing, ticker, ob) ==
    [venue |-> v, symbol |-> SymbolOf(v), ts_utc |-> ts, missing_market |-> missing,
     ticker |-> ticker, orderbook |-> ob]

Fine == Some(Impact(Some(5), FALSE, 0, 100))

Slip(bps) == Some(Impact(Some(bps), FALSE, 0, 100))

\* Against medians of 10: depth 5+3 is normal and 3+3 a breach (< 7),
\* spread 5 is normal and 25 a breach (> 20), slippage 5 is normal and
\* 25 a breach (> 20).
CalmBook == OrderBook(Some(5), Some(3), Some(5), Fine, Fine, Fine, Fine)
DepthBook == OrderBook(Some(3), Some(3), Some(5), Fine, Fine, Fine, Fine)
SpreadBook == OrderBook(Some(5), Some(3), Some(25), Fine, Fine, Fine, Fine)
SlipBook == OrderBook(Some(5), Some(3), Some(5), Slip(25), Fine, Fine, Fine)
\* An order book whose depth, spread and slippages are absent.
BareBook == OrderBook(Some(5), None, None, Some(Impact(None, FALSE, 0, 100)), None, None, None)
\* A flagged impact result, shortfall short of target, on one of the four.
ShortBook(i, shortfall, target) ==
    LET x == Some(Impact(Some(5), TRUE, shortfall, target))
    IN  OrderBook(Some(5), Some(3), Some(5),
                  IF i = 1 THEN x ELSE Fine, IF i = 2 THEN x ELSE Fine,
                  IF i = 3 THEN x ELSE Fine, IF i = 4 THEN x ELSE Fine)

\* Snapshots that move the three confirmed rules one at a time; shortfall
\* 30 of 100 is above the gap threshold of 20 percent and a target of 0
\* gives a gap of 0.
CounterSnapshots(v, ts) ==
    {Snap(v, ts, FALSE, Some(Ticker(Some(10))), Some(ob)) :
        ob \in {CalmBook, DepthBook, SpreadBook, SlipBook, BareBook, ShortBook(1, 0, 0)}}
    \cup {Snap(v, ts, FALSE, Some(Ticker(Some(30))), Some(ShortBook(4, 30, 100))),
          Snap(v, ts, FALSE, Some(Ticker(None)), None),
          Snap(v, ts, TRUE, None, None)}

\* Snapshots that move the two immediate rules and leave the other three
\* normal; shortfall 20 of 100 is on the gap threshold, not above it.
WindowSnapshots(v, ts) ==
    {Snap(v, ts, FALSE, Some(Ticker(Some(10))), Some(ob)) :
        ob \in {CalmBook, ShortBook(1, 30, 100), ShortBook(2, 20, 100)}}
    \cup {Snap(v, ts, FALSE, Some(Ticker(Some(30))), None),
          Snap(v, ts, TRUE, None, None)}

Baseline(warming, d, sp, sl, vol) ==
    [warming_up |-> warming, depth_1pct_total_median |-> d, spread_bps_median |-> sp,
     slip_bps_n2_median |-> sl, volume_24h_mean_7d |-> vol]

Ready == Baseline(FALSE, Some(10), Some(10), Some(10), Some(10))
Warming == Baseline(TRUE, Some(10), Some(10), Some(10), Some(10))
\* Twenty or more stored rows, none of which carries a metric.
Blank == Baseline(FALSE, None, None, None, None)

EmptyTable == [x \in {} |-> 0]

\* ---- the parts of the state a specification does not exercise ----
DetIdle ==
    /\ alert_counters = EmptyTable /\ alerts = EmptyTable /\ now = 0
    /\ thresholds = ConfiguredThresholds
    /\ lastRun = [seq |-> 0]
    /\ streak = EmptyTable /\ run3 = EmptyTable

CaIdle ==
    /\ ca_pc = "idle" /\ ca_cfg = [workers |-> 0]
    /\ futures = EmptyTable /\ results = EmptyTable
    /\ ca_clock = 0 /\ wait_start = 0 /\ ca_i = 0

CvIdle ==
    /\ cv_pc = "idle" /\ cv_venue = "" /\ snapshot = EmptyTable
    /\ cv_local = EmptyTable /\ cv_obs = EmptyTable

RsIdle ==
    /\ rs_pc = "idle" /\ base_url = <<>> /\ rs_i = 0 /\ rs_calls = <<>>
    /\ rs_verify = {} /\ attempts = <<>> /\ final_reason = "" /\ resolved = {}

GetIdle ==
    /\ get_pc = "idle" /\ attempt = 0 /\ last_error = {} /\ responses = <<>>
    /\ sleeps = <<>> /\ get_result = {}

DmIdle ==
    /\ dm_pc = "idle" /\ dm_mode = "" /\ schedule_seconds = 0 /\ _shutdown = FALSE
    /\ runtime = EmptyTable /\ pos = EmptyTable /\ events = <<>> /\ dm_exc = {}
    /\ wait_left = 0 /\ starts = <<>> /\ ended = <<>>

PfIdle == pf_call = <<>> /\ pf_ret = {}

EvIdle ==
    /\ ev_pc = EmptyTable /\ ev_local = EmptyTable /\ ev_count = EmptyTable
    /\ ev_serial = 0

CyIdle ==
    /\ cy_pc = "idle" /\ metrics_snapshot = <<>> /\ alert_rows = <<>>
    /\ cy = EmptyTable

RestIdle == PfIdle /\ EvIdle /\ CyIdle

AuxIdle == RsIdle /\ GetIdle /\ DmIdle /\ recent = <<>> /\ RestIdle

\* ---- the alert engine as a state machine ----
\* Storage() on a fresh database: empty tables.  The configuration supplies
\* the thresholds.
InitDetector ==
    /\ alert_counters = EmptyTable
    /\ alerts = EmptyTable
    /\ now = 0
    /\ thresholds = ConfiguredThresholds
    /\ lastRun = [seq |-> 0, venue |-> <<>>, warming_up |-> FALSE,
                  missing_market |-> FALSE, produced |-> {}, returned |-> {},
                  breach |-> {}, normal |-> {}, interrupted |-> {},
                  raised |-> FALSE, liq_breach |-> FALSE, checked_at |-> 0]
    /\ streak = [k \in Rules123 \X DetVenues |-> 0]
    /\ run3 = [k \in Rules123 \X DetVenues |-> 0]

\* The snapshot holds an impact result that is flagged and whose unmet share
\* of the target exceeds pct percent (stated on the inputs alone).
LiquidityBreach(snap, pct) ==
    /\ ~IsNone(snap.orderbook)
    /\ \E o \in {Val(snap.orderbook).impact_buy_n1, Val(snap.orderbook).impact_sell_n1,
                 Val(snap.orderbook).impact_buy_n2, Val(snap.orderbook).impact_sell_n2} :
          /\ ~IsNone(o)
          /\ Val(o).insufficient_liquidity
          /\ Val(o).target_notional > 0
          /\ Val(o).shortfall * 100 > pct * Val(o).target_notional

\* Step 5 of run_once_cycle for one venue: run_all_checks, then save_alert
\* for every Alert it returned.  lag seconds pass between the dedupe query
\* and the inserts.  An exception leaves run_once_cycle before any insert.
DetectVenue(v, snap, base, lag) ==
    \E res \in {run_all_checks(snap, base, thresholds, alert_counters, alerts,
                               DedupeWindow, now)} :
    LET newAlerts == IF res.raised THEN alerts
                     ELSE SaveAll(alerts, res.returned, now + lag)
        breach(r) == ~IsNone(res.conds[r]) /\ Val(res.conds[r])
        normal(r) == ~IsNone(res.conds[r]) /\ ~Val(res.conds[r])
        fired(r) == \E a \in res.produced : a.alert_type = r
    IN  /\ now + lag <= MaxNow
        /\ lag > 0 => res.returned # <<>>
        /\ \A k \in DOMAIN newAlerts : Len(newAlerts[k]) <= MaxRowsPerKey
        /\ alert_counters' = res.tbl
        /\ alerts' = newAlerts
        /\ now' = now + lag
        /\ streak' = [k \in DOMAIN streak |->
                        IF k[2] # v \/ IsNone(res.conds[k[1]]) THEN streak[k]
                        ELSE IF normal(k[1]) \/ fired(k[1]) THEN 0
                        ELSE streak[k] + 1]
        /\ run3' = [k \in DOMAIN run3 |->
                        IF k[2] # v \/ IsNone(res.conds[k[1]]) THEN run3[k]
                        ELSE IF normal(k[1]) THEN 0
                        ELSE (run3[k] + 1) % 3]
        /\ lastRun' = [seq |-> 1 - lastRun.seq, venue |-> v,
                       warming_up |-> base.warming_up,
                       missing_market |-> snap.missing_market,
                       produced |-> res.produced,
                       returned |-> {res.returned[i].dedupe_key : i \in DOMAIN res.returned},
                       breach |-> {r \in Rules123 : breach(r)},
                       normal |-> {r \in Rules123 : normal(r)},
                       interrupted |-> {r \in Rules123 : normal(r) /\ streak[<<r, v>>] > 0},
                       raised |-> res.raised,
                       liq_breach |-> /\ "insufficient_liq_gap_pct" \in DOMAIN thresholds
                                      /\ LiquidityBreach(snap, thresholds.insufficient_liq_gap_pct),
                       checked_at |-> now]
        /\ UNCHANGED thresholds

\* Cycles that follow one another within the same second.
DetectCounters ==
    /\ \E v \in DetVenues, base \in {Ready, Warming, Blank} :
         \E snap \in CounterSnapshots(v, now) : DetectVenue(v, snap, base, 0)
    /\ UNCHANGED <<caVars, cvVars, auxVars>>

\* Cycles whose dedupe query and inserts are lag seconds apart.
DetectWindow ==
    /\ \E v \in DetVenues, base \in {Ready, Warming}, lag \in 0..MaxLag :
         \E snap \in WindowSnapshots(v, now) : DetectVenue(v, snap, base, lag)
    /\ UNCHANGED <<caVars, cvVars, auxVars>>

\* Time passes between two cycles.
Tick ==
    /\ now < MaxNow
    /\ now' = now + 1
    /\ UNCHANGED <<alert_counters, alerts, thresholds, lastRun, streak, run3>>
    /\ UNCHANGED <<caVars, cvVars, auxVars>>

Init == InitDetector /\ CaIdle /\ CvIdle /\ AuxIdle

Next == DetectCounters

Spec == Init /\ [][Next]_vars

NextWindow == DetectWindow \/ Tick

SpecWindow == Init /\ [][NextWindow]_vars

\* Snapshots of cycles in which a confirmed rule's condition holds, does
\* not hold, or cannot be evaluated: the order book is normal, its depth or
\* slippage is in breach, its metrics are absent, the order book itself is
\* absent, or the venue is missing_market.
StreakSnapshots(v, ts) ==
    {Snap(v, ts, FALSE, Some(Ticker(Some(10))), Some(ob)) :
        ob \in {CalmBook, DepthBook, SlipBook, BareBook}}
    \cup {Snap(v, ts, FALSE, Some(Ticker(None)), None),
          Snap(v, ts, TRUE, None, None)}

\* Cycles that follow one another, with the conditions of the two passes
\* before the latest one kept on record.
DetectRecent ==
    /\ \E v \in DetVenues, base \in {Ready, Warming, Blank} :
         \E snap \in StreakSnapshots(v, now) : DetectVenue(v, snap, base, 0)
    /\ recent' = <<lastRun.breach, recent[1]>>
    /\ UNCHANGED <<caVars, cvVars, rsVars, getVars, dmVars, restVars>>

StreakInit ==
    /\ InitDetector /\ CaIdle /\ CvIdle /\ RsIdle /\ GetIdle /\ DmIdle /\ RestIdle
    /\ recent = <<{}, {}>>

NextStreak == DetectRecent

SpecStreak == StreakInit /\ [][NextStreak]_vars

\* The alert engine under the configuration load_config builds: thresholds
\* is a ThresholdsConfig with the four multipliers config.py declares.
InitDeclared ==
    /\ InitDetector!1 /\ InitDetector!2 /\ InitDetector!3
    /\ thresholds = ThresholdsConfig
    /\ InitDetector!5 /\ InitDetector!6 /\ InitDetector!7

DeclaredInit == InitDeclared /\ CaIdle /\ CvIdle /\ AuxIdle

SpecDeclared == DeclaredInit /\ [][Next]_vars

\* ---- properties of the alert engine ----
CounterOf(r, v) == get_consecutive_count(alert_counters, Key(r, v, SymbolOf(v)))
AlertsOfType(S, r) == {a \in S : a.alert_type = r}
Stepped == lastRun'.seq # lastRun.seq

\* C1: for each of the rules depth_shrink, spread_widen and impact_cost_up,
\* counting the evaluations in which the condition held since the last
\* evaluation in which it did not (from counter 0): the first and the second
\* of three emit no Alert and leave the counter at 1 and 2, the third emits
\* exactly one Alert and leaves the counter at 0.
C1_Theorem ==
    \A r \in lastRun.breach :
        LET n == run3[<<r, lastRun.venue>>]
            emitted == AlertsOfType(lastRun.produced, r)
        IN  /\ n \in {1, 2} => emitted = {} /\ CounterOf(r, lastRun.venue) = n
            /\ n = 0 => Cardinality(emitted) = 1 /\ CounterOf(r, lastRun.venue) = 0

C1_Witness ==
    \E r \in lastRun.breach :
        /\ run3[<<r, lastRun.venue>>] = 0
        /\ AlertsOfType(lastRun.produced, r) # {}
        /\ CounterOf(r, lastRun.venue) = 0

\* C2: an evaluation of a rule 1-3 evaluator in which the condition does not
\* hold emits nothing and leaves that key's counter at 0, and an Alert is
\* emitted only when the two evaluations before it that reached the
\* comparison both found the condition to hold with nothing emitted, so
\* breaches before a normal evaluation never count.
C2_Theorem ==
    [][Stepped =>
        \A r \in Rules123 :
            LET v == lastRun'.venue
                emitted == AlertsOfType(lastRun'.produced, r)
            IN  /\ r \in lastRun'.normal =>
                      /\ emitted = {}
                      /\ get_consecutive_count(alert_counters', Key(r, v, SymbolOf(v))) = 0
                /\ emitted # {} => r \in lastRun'.breach /\ streak[<<r, v>>] = 2]_vars

\* A normal evaluation has just interrupted a run of breaches.
C2_Witness ==
    \E r \in lastRun.interrupted :
        /\ Key(r, lastRun.venue, SymbolOf(lastRun.venue)) \in DOMAIN alert_counters
        /\ CounterOf(r, lastRun.venue) = 0
        /\ streak[<<r, lastRun.venue>>] = 0

\* A persisted row of key k lies within the window at time t.
WithinWindow(tab, k, window, t) ==
    \E i \in DOMAIN RowsOf(tab, k) : t - RowsOf(tab, k)[i].created_at <= window

Spaced(tab, window) ==
    \A k \in DOMAIN tab : \A i, j \in DOMAIN tab[k] :
        i < j => tab[k][j].created_at - tab[k][i].created_at > window

\* C3: when a rule produces an Alert whose dedupe key has a persisted row
\* within the last dedupe window, the Alert is neither returned by
\* run_all_checks nor persisted; when every persisted row of that key is
\* older than the window, it is returned and persisted; and no two
\* persisted rows of one key lie closer together than the window.
C3_Theorem ==
    [][/\ Stepped =>
            \A a \in lastRun'.produced :
                LET k == a.dedupe_key
                IN  /\ WithinWindow(alerts, k, DedupeWindow, now) =>
                          /\ k \notin lastRun'.returned
                          /\ RowsOf(alerts', k) = RowsOf(alerts, k)
                    /\ (RowsOf(alerts, k) # <<>>
                          /\ ~WithinWindow(alerts, k, DedupeWindow, now)) =>
                          /\ k \in lastRun'.returned
                          /\ Len(RowsOf(alerts', k)) = Len(RowsOf(alerts, k)) + 1
       /\ Spaced(alerts', DedupeWindow)]_vars

\* A key persisted twice, and a third Alert of it just suppressed.
C3_Witness ==
    \E a \in lastRun.produced :
        /\ Len(RowsOf(alerts, a.dedupe_key)) = 2
        /\ a.dedupe_key \notin lastRun.returned

C5_Theorem ==
    lastRun.warming_up =>
        \A r \in Rules123 \cup {"volume_spike"} :
            Key(r, lastRun.venue, SymbolOf(lastRun.venue)) \notin lastRun.returned

\* A warming-up pass over stored counters that did return an Alert.
C5_Witness ==
    /\ lastRun.warming_up
    /\ lastRun.returned = {Key("insufficient_liquidity", lastRun.venue, SymbolOf(lastRun.venue))}
    /\ \E r \in Rules123 : CounterOf(r, lastRun.venue) = CONSECUTIVE_THRESHOLD - 1
(***************************************************************************)
(*                     COLLECTOR (collector.collect_all)                   *)
(***************************************************************************)

\* ---- bounds of the collect_all model ----
MaxClock == 3          \* the clock runs 0 .. MaxClock
VenueTimeout == 1      \* config.venue_timeout_seconds, in clock units
MaxWorkers == 2        \* config.collect_workers ranges over 0 .. MaxWorkers

\* collector.VENUE_HANDLERS has an entry for these venue names only.
VENUE_HANDLERS == {"binance", "okx", "bybit"}

\* config.venues, in the order of its items(); kraken has no handler.
VenueOrders ==
    {<<>>, <<"binance", "okx">>, <<"okx", "binance">>, <<"kraken", "binance">>}

\* A VenueSnapshot as collect_all sees it: errors holds the error codes and
\* collect_timeout is raw_json["collect_timeout_seconds"].
VenueSnapshot(v, missing, errors, collect_timeout) ==
    [venue |-> v, missing_market |-> missing, errors |-> errors,
     collect_timeout |-> collect_timeout]

\* What collect_venue may hand back for venue v, or the exception it raises.
WorkerOutcomes(v) ==
    IF v \notin VENUE_HANDLERS
    THEN {[raises |-> FALSE,
           snap |-> Some(VenueSnapshot(v, TRUE, <<"unsupported_venue">>, None))]}
    ELSE {[raises |-> FALSE, snap |-> Some(VenueSnapshot(v, FALSE, <<>>, None))],
          [raises |-> FALSE,
           snap |-> Some(VenueSnapshot(v, TRUE, <<"verify_failed">>, None))],
          [raises |-> TRUE, snap |-> None]}

ts_without_missing_market(v, timeout) ==
    VenueSnapshot(v, FALSE, <<"venue_timeout">>, Some(timeout))

\* The Snapshot built in the "except TimeoutError" branch.
TimeoutSnapshot(v, timeout) ==
    VenueSnapshot(v, TRUE, <<"venue_timeout">>, Some(timeout))

crash_without_error(v) == VenueSnapshot(v, TRUE, <<>>, None)

\* The Snapshot built in the "except Exception" branch.
CrashSnapshot(v) == VenueSnapshot(v, TRUE, <<"network_error">>, None)

VenueSet(cfg) == {cfg.venues[i] : i \in DOMAIN cfg.venues}

\* workers = max(1, min(config.collect_workers, len(venue_items)))
PoolSize(cfg) ==
    LET m == IF cfg.collect_workers < Len(cfg.venues)
             THEN cfg.collect_workers ELSE Len(cfg.venues)
    IN  IF m > 1 THEN m ELSE 1

Running(fs) == {v \in DOMAIN fs : fs[v].state = "running"}
Queued(fs) == {v \in DOMAIN fs : fs[v].state = "queued"}

QueuedFuture == [state |-> "queued", started |-> None, finished |-> None, outcome |-> None]

\* Idle pool threads take work items in submission order.
RECURSIVE Dispatch(_, _, _, _)
Dispatch(fs, order, size, t) ==
    IF order = <<>> \/ Cardinality(Running(fs)) >= size THEN fs
    ELSE IF fs[Head(order)].state = "queued"
    THEN Dispatch([fs EXCEPT ![Head(order)].state = "running",
                             ![Head(order)].started = Some(t)],
                  Tail(order), size, t)
    ELSE Dispatch(fs, Tail(order), size, t)

InitCollect ==
    /\ ca_pc = "start"
    /\ ca_cfg \in [venues : VenueOrders, collect_workers : 0..MaxWorkers,
                   venue_timeout_seconds : {VenueTimeout}]
    /\ futures = EmptyTable
    /\ results = EmptyTable
    /\ ca_clock = 0 /\ wait_start = 0 /\ ca_i = 0

\* collect_all up to the first future.result: an empty venue list returns
\* at once, otherwise every venue is submitted to the pool.
CollectStart ==
    /\ ca_pc = "start"
    /\ IF ca_cfg.venues = <<>>
       THEN /\ ca_pc' = "returned"
            /\ UNCHANGED <<futures, ca_i>>
       ELSE /\ ca_pc' = "wait"
            /\ futures' = Dispatch([v \in VenueSet(ca_cfg) |-> QueuedFuture],
                                   ca_cfg.venues, PoolSize(ca_cfg), ca_clock)
            /\ ca_i' = 1
    /\ wait_start' = ca_clock
    /\ UNCHANGED <<ca_cfg, results, ca_clock, detVars, cvVars, auxVars>>

\* A pool thread finishes collect_venue for v, sets the future and takes the
\* next queued work item.
WorkerFinish(v, out) ==
    /\ ca_pc \in {"wait", "shutdown"}
    /\ v \in Running(futures)
    /\ futures' = Dispatch([futures EXCEPT ![v].state = "done",
                                           ![v].finished = Some(ca_clock),
                                           ![v].outcome = Some(out)],
                           ca_cfg.venues, PoolSize(ca_cfg), ca_clock)
    /\ UNCHANGED <<ca_pc, ca_cfg, results, ca_clock, wait_start, ca_i, detVars, cvVars, auxVars>>

Advance ==
    /\ IF ca_i = Len(ca_cfg.venues)
       THEN ca_pc' = "shutdown" /\ ca_i' = ca_i
       ELSE ca_pc' = "wait" /\ ca_i' = ca_i + 1
    /\ wait_start' = ca_clock

\* future.result returns or re-raises what the worker produced.
MainTake ==
    /\ ca_pc = "wait"
    /\ LET v == ca_cfg.venues[ca_i]
           out == Val(futures[v].outcome)
       IN  /\ futures[v].state = "done"
           /\ results' = [x \in DOMAIN results \cup {v} |->
                            IF x # v THEN results[x]
                            ELSE IF out.raises THEN CrashSnapshot(v)
                            ELSE Val(out.snap)]
    /\ Advance
    /\ UNCHANGED <<ca_cfg, futures, ca_clock, detVars, cvVars, auxVars>>

\* future.result raises TimeoutError: the wait has lasted the timeout and
\* the future is still not done.
MainTimeout ==
    /\ ca_pc = "wait"
    /\ LET v == ca_cfg.venues[ca_i]
       IN  /\ futures[v].state # "done"
           /\ ca_clock - wait_start >= ca_cfg.venue_timeout_seconds
           /\ results' = [x \in DOMAIN results \cup {v} |->
                            IF x # v THEN results[x]
                            ELSE TimeoutSnapshot(v, ca_cfg.venue_timeout_seconds)]
    /\ Advance
    /\ UNCHANGED <<ca_cfg, futures, ca_clock, detVars, cvVars, auxVars>>

return_without_join ==
    /\ ca_pc = "shutdown"
    /\ ca_pc' = "returned"
    /\ UNCHANGED <<ca_cfg, futures, results, ca_clock, wait_start, ca_i, detVars, cvVars, auxVars>>

\* Leaving the "with ThreadPoolExecutor" block is shutdown(wait=True): it
\* joins the pool threads, which first run every queued work item.
CollectReturn ==
    /\ ca_pc = "shutdown"
    /\ Running(futures) \cup Queued(futures) = {}
    /\ ca_pc' = "returned"
    /\ UNCHANGED <<ca_cfg, futures, results, ca_clock, wait_start, ca_i, detVars, cvVars, auxVars>>

\* Time passes while the calling thread is blocked in future.result or in
\* the shutdown.
CollectTick ==
    /\ ca_clock < MaxClock
    /\ \/ /\ ca_pc = "wait"
          /\ futures[ca_cfg.venues[ca_i]].state # "done"
          /\ ca_clock - wait_start < ca_cfg.venue_timeout_seconds
       \/ /\ ca_pc = "shutdown"
          /\ Running(futures) # {}
    /\ ca_clock' = ca_clock + 1
    /\ UNCHANGED <<ca_pc, ca_cfg, futures, results, wait_start, ca_i, detVars, cvVars, auxVars>>

\* Some pool thread finishes its collect_venue, with any outcome.
WorkerStep ==
    \E v \in DOMAIN futures : \E out \in WorkerOutcomes(v) : WorkerFinish(v, out)

CollectInit == DetIdle /\ InitCollect /\ CvIdle /\ AuxIdle

NextCollect ==
    \/ CollectStart
    \/ WorkerStep
    \/ MainTake
    \/ MainTimeout
    \/ CollectReturn
    \/ CollectTick

SpecCollect == CollectInit /\ [][NextCollect]_vars
\* ---- properties of collect_all ----
\* What future.result hands the calling thread once the worker of v is done.
Delivered(v) ==
    IF Val(futures[v].outcome).raises THEN CrashSnapshot(v)
    ELSE Val(Val(futures[v].outcome).snap)

TimedOut(v) == v \in DOMAIN results /\ results[v].collect_timeout # None

\* C6: when the wait for a venue ends with its future not done, the venue
\* gets a Snapshot with missing_market set whose first error is
\* venue_timeout, the step leaves the worker as it was (not cancelled), and
\* no later step replaces that Snapshot, whatever the worker produces.
C6_Theorem ==
    [][\A v \in DOMAIN futures :
          /\ (v \notin DOMAIN results /\ v \in DOMAIN results'
                /\ futures[v].state # "done") =>
                 /\ results'[v].missing_market
                 /\ Len(results'[v].errors) >= 1
                 /\ results'[v].errors[1] = "venue_timeout"
                 /\ futures'[v] = futures[v]
          /\ TimedOut(v) => results'[v] = results[v]]_vars

\* Returned with a timeout Snapshot for a venue whose worker went on to
\* produce a usable Snapshot.
C6_Witness ==
    /\ ca_pc = "returned"
    /\ \E v \in DOMAIN results :
          /\ TimedOut(v) /\ results[v].missing_market
          /\ futures[v].state = "done"
          /\ ~Val(futures[v].outcome).raises
          /\ ~Val(Val(futures[v].outcome).snap).missing_market

\* C7 (as claimed): once the wait loop is over, a venue whose own collection
\* took less than the timeout holds what its worker produced, and one whose
\* own collection took longer, or has not finished or begun after longer
\* than the timeout, holds the timeout Snapshot.
C7_Claim ==
    ca_pc \in {"shutdown", "returned"} =>
        \A v \in DOMAIN futures :
            LET f == futures[v]
                T == ca_cfg.venue_timeout_seconds
            IN  /\ (f.state = "done" /\ Val(f.finished) - Val(f.started) < T) =>
                      results[v] = Delivered(v)
                /\ (f.state = "done" /\ Val(f.finished) - Val(f.started) > T) =>
                      TimedOut(v)

\* C8 (as claimed): once every venue's wait has ended with a result or a
\* timeout, collect_all can return, whether or not a worker is still running.
C8_Claim == ca_pc = "shutdown" => ENABLED CollectReturn

SubFetches == <<"instrument", "ticker", "orderbook", "funding", "oi", "klines">>

\* The error code collect_venue appends when a sub-fetch hands back nothing;
\* the instrument call has none.
ErrorCodeOf(f) ==
    CASE f = "ticker" -> Some("ticker_failed")
      [] f = "orderbook" -> Some("orderbook_failed")
      [] f = "funding" -> Some("funding_failed")
      [] f = "oi" -> Some("open_interest_failed")
      [] f = "klines" -> Some("ohlcv_failed")
      [] OTHER -> None

\* How a handler call can end: "ok" with data, "failed" (the request or the
\* parsing raised inside the handler), "empty" (a candle list of length 0).
\* Only the OKX instrument handler performs a request.
HandlerOutcomes(v, f) ==
    CASE f = "instrument" -> IF v = "okx" THEN {"ok", "failed"} ELSE {"ok"}
      [] f = "klines" -> {"ok", "failed", "empty"}
      [] OTHER -> {"ok", "failed"}

\* Verification: "ok", or the words found in the reason it gives.
VerifyOutcomes(v) ==
    IF v = "okx"
    THEN {{"ok"}, {"symbol_not_found"}, {"network_error"}, {"verify_error"},
          {"verify_error", "timeout"}}
    ELSE {{"ok"}, {"symbol_not_found"}}

vrec_always_verify_failed(reason) == "verify_failed"

verify_reason_to_error_code(reason) ==
    IF "symbol_not_found" \in reason THEN "symbol_not_found"
    ELSE IF "network_error" \in reason \/ "timeout" \in reason THEN "network_error"
    ELSE "verify_failed"

append_error(snap, code) == [snap EXCEPT !.errors = Append(@, code)]

InitVenue ==
    /\ cv_pc = "handlers"
    /\ cv_venue \in VENUE_HANDLERS \cup {"kraken"}
    /\ snapshot = [venue |-> cv_venue, missing_market |-> FALSE, errors |-> <<>>,
                   ticker |-> FALSE, raw_json |-> {}, orderbook |-> FALSE,
                   ohlcv |-> FALSE]
    /\ cv_local = [ct_val |-> 1, ob_raw |-> FALSE, reason |-> {}]
    /\ cv_obs = [f \in {} |-> "ok"]

\* handlers = VENUE_HANDLERS.get(venue_name); none: unsupported venue.
CvHandlers ==
    /\ cv_pc = "handlers"
    /\ IF cv_venue \in VENUE_HANDLERS
       THEN cv_pc' = "verify" /\ UNCHANGED snapshot
       ELSE /\ cv_pc' = "returned"
            /\ snapshot' = [append_error(snapshot, "unsupported_venue")
                               EXCEPT !.missing_market = TRUE]
    /\ UNCHANGED <<cv_venue, cv_local, cv_obs, detVars, caVars, auxVars>>

\* Symbol verification (for okx the base-URL resolution); a failure ends
\* collect_venue with a missing_market Snapshot.
CvVerify ==
    /\ cv_pc = "verify"
    /\ \E reason \in VerifyOutcomes(cv_venue) :
          /\ cv_local' = [cv_local EXCEPT !.reason = reason]
          /\ IF reason = {"ok"}
             THEN cv_pc' = "instrument" /\ UNCHANGED snapshot
             ELSE /\ cv_pc' = "returned"
                  /\ snapshot' = [append_error(snapshot, verify_reason_to_error_code(reason))
                                     EXCEPT !.missing_market = TRUE]
    /\ UNCHANGED <<cv_venue, cv_obs, detVars, caVars, auxVars>>

Observe(f, out) == [x \in DOMAIN cv_obs \cup {f} |-> IF x = f THEN out ELSE cv_obs[x]]

\* inst = handlers["instrument"](...): a failed OKX request is logged and
\* answered with the default ct_val of 1.
CvInstrument ==
    /\ cv_pc = "instrument"
    /\ \E out \in HandlerOutcomes(cv_venue, "instrument") :
          /\ cv_local' = [cv_local EXCEPT !.ct_val =
                             IF cv_venue = "okx" /\ out = "ok" THEN 10 ELSE 1]
          /\ cv_obs' = Observe("instrument", out)
    /\ snapshot' = [snapshot EXCEPT !.raw_json = @ \cup {"instrument"}]
    /\ cv_pc' = "ticker"
    /\ UNCHANGED <<cv_venue, detVars, caVars, auxVars>>

\* One of the five data sub-fetches: store what came back, or append the
\* error code when the raw payload is None or empty.
CvFetch(f, next) ==
    /\ cv_pc = f
    /\ \E out \in HandlerOutcomes(cv_venue, f) :
          /\ snapshot' =
                IF out = "ok"
                THEN [snapshot EXCEPT !.raw_json = @ \cup {f},
                                      !.ticker = IF f = "ticker" THEN TRUE ELSE @]
                ELSE append_error(snapshot, Val(ErrorCodeOf(f)))
          /\ cv_local' = IF f = "orderbook" /\ out = "ok"
                         THEN [cv_local EXCEPT !.ob_raw = TRUE] ELSE cv_local
          /\ cv_obs' = Observe(f, out)
    /\ cv_pc' = next
    /\ UNCHANGED <<cv_venue, detVars, caVars, auxVars>>

CvTicker == CvFetch("ticker", "orderbook")
CvOrderbook == CvFetch("orderbook", "funding")
CvFunding == CvFetch("funding", "oi")
CvOi == CvFetch("oi", "klines")
CvKlines == CvFetch("klines", "finish")

\* The closing check: ticker and order book both absent.
CvFinish ==
    /\ cv_pc = "finish"
    /\ snapshot' = IF ~snapshot.ticker /\ ~cv_local.ob_raw
                   THEN [append_error(snapshot, "market_data_unavailable")
                            EXCEPT !.missing_market = TRUE]
                   ELSE snapshot
    /\ cv_pc' = "returned"
    /\ UNCHANGED <<cv_venue, cv_local, cv_obs, detVars, caVars, auxVars>>

enrich_ignores_missing_market(snap) ==
    [snap EXCEPT !.orderbook = "orderbook" \in snap.raw_json,
                 !.ohlcv = "klines" \in snap.raw_json]

\* calculator.enrich_snapshot, as far as presence goes: a missing_market
\* Snapshot is handed back untouched; otherwise the order-book metrics are
\* derived from raw_json["orderbook_raw"] and the OHLCV metrics from
\* raw_json["ohlcv_candles"] when these are there.
enrich_snapshot(snap) ==
    IF snap.missing_market THEN snap
    ELSE [snap EXCEPT !.orderbook = "orderbook" \in snap.raw_json,
                      !.ohlcv = "klines" \in snap.raw_json]

\* Step 2 of run_once_cycle for the Snapshot collect_venue returned; the
\* result is what save_snapshot receives.
CvEnrich ==
    /\ cv_pc = "returned"
    /\ snapshot' = enrich_snapshot(snapshot)
    /\ cv_pc' = "enriched"
    /\ UNCHANGED <<cv_venue, cv_local, cv_obs, detVars, caVars, auxVars>>

VenueInit == DetIdle /\ CaIdle /\ InitVenue /\ AuxIdle

NextVenue ==
    \/ CvHandlers
    \/ CvVerify
    \/ CvInstrument
    \/ CvTicker
    \/ CvOrderbook
    \/ CvFunding
    \/ CvOi
    \/ CvKlines
    \/ CvFinish
    \/ CvEnrich

SpecVenue == VenueInit /\ [][NextVenue]_vars

\* ---- properties of collect_venue ----
Occurrences(seq, x) == Cardinality({i \in DOMAIN seq : seq[i] = x})

\* C10 (as claimed): when collect_venue returns after a successful
\* verification, all six sub-fetches have been attempted, the error records
\* hold exactly one entry for every sub-fetch that failed (or gave no data)
\* and none for a sub-fetch that succeeded; the only other entry there can
\* be is market_data_unavailable.
C10_Claim ==
    (cv_pc = "returned" /\ "instrument" \in DOMAIN cv_obs) =>
        /\ DOMAIN cv_obs = {SubFetches[i] : i \in DOMAIN SubFetches}
        /\ Len(snapshot.errors) - Occurrences(snapshot.errors, "market_data_unavailable")
             = Cardinality({f \in DOMAIN cv_obs : cv_obs[f] # "ok"})
        /\ \A f \in DOMAIN cv_obs :
              (cv_obs[f] = "ok" /\ ErrorCodeOf(f) # None) =>
                  Occurrences(snapshot.errors, Val(ErrorCodeOf(f))) = 0
\* C11: when symbol verification fails (for okx: no candidate endpoint
\* verifies), collect_venue returns a Snapshot with missing_market set and
\* exactly one error record, the one that carries the reason, and no
\* instrument, ticker, order book, funding, open interest or candle call
\* has been made.
C11_Theorem ==
    (cv_pc = "returned" /\ cv_local.reason \notin {{}, {"ok"}}) =>
        /\ snapshot.missing_market
        /\ Len(snapshot.errors) = 1
        /\ snapshot.errors[1] =
              (CASE cv_local.reason = {"symbol_not_found"} -> "symbol_not_found"
                 [] cv_local.reason = {"network_error"} -> "network_error"
                 [] cv_local.reason = {"verify_error", "timeout"} -> "network_error"
                 [] OTHER -> "verify_failed")
        /\ DOMAIN cv_obs = {}
        /\ snapshot.raw_json = {}
        /\ ~snapshot.ticker /\ ~cv_local.ob_raw

\* OKX gave up on every candidate for a network reason.
C11_Witness ==
    /\ cv_pc = "returned" /\ cv_venue = "okx"
    /\ cv_local.reason = {"network_error"}
    /\ snapshot.errors = <<"network_error">>
\* C12: a Snapshot handed to persistence has no order-book metrics and no
\* OHLCV metrics when missing_market is set, and is not missing_market when
\* its ticker or its order book is present; for a verified venue
\* missing_market is set exactly when the ticker and the order book
\* sub-fetches both gave nothing, and then market_data_unavailable is among
\* the errors.
C12_Theorem ==
    cv_pc = "enriched" =>
        /\ snapshot.missing_market => ~snapshot.orderbook /\ ~snapshot.ohlcv
        /\ (snapshot.ticker \/ snapshot.orderbook) => ~snapshot.missing_market
        /\ cv_local.reason = {"ok"} =>
              /\ snapshot.missing_market
                   <=> (cv_obs["ticker"] # "ok" /\ cv_obs["orderbook"] # "ok")
              /\ snapshot.missing_market =>
                   Occurrences(snapshot.errors, "market_data_unavailable") = 1

\* A verified venue without ticker and order book whose candles arrived.
C12_Witness ==
    /\ cv_pc = "enriched" /\ cv_local.reason = {"ok"}
    /\ snapshot.missing_market
    /\ cv_obs["klines"] = "ok" /\ "klines" \in snapshot.raw_json
    /\ ~snapshot.ohlcv
\* ======================================================================
\* _okx_resolve_base_url: the choice of the OKX endpoint
\* ======================================================================
\* A URL is the sequence of its tokens: the address without trailing
\* slashes, then one token per trailing "/".  <<>> is the empty string.
AppUrl == <<"https://app.okx.com">>
MyUrl  == <<"https://my.okx.com">>
WwwUrl == <<"https://www.okx.com">>
OwnUrl == <<"https://okx.example">>

OKX_BASE_URL_FALLBACKS == <<AppUrl, MyUrl, WwwUrl>>

\* venues.okx.base_url as a configuration file can give it.
BaseUrls ==
    {<<>>, AppUrl, MyUrl, WwwUrl, OwnUrl,
     MyUrl \o <<"/">>, OwnUrl \o <<"/">>, WwwUrl \o <<"/", "/">>, <<"/">>}

\* str.rstrip("/")
RECURSIVE rstrip(_)
rstrip(u) ==
    IF u # <<>> /\ u[Len(u)] = "/" THEN rstrip(SubSeq(u, 1, Len(u) - 1)) ELSE u

\* The uniq/seen loop of _okx_candidate_base_urls.
RECURSIVE Uniq(_, _, _)
Uniq(items, uniq, seen) ==
    IF items = <<>> THEN uniq
    ELSE IF Head(items) \notin seen
         THEN Uniq(Tail(items), Append(uniq, Head(items)), seen \cup {Head(items)})
         ELSE Uniq(Tail(items), uniq, seen)

okx_candidates_with_duplicates(base) ==
    <<AppUrl>> \o (IF base # <<>> THEN <<rstrip(base)>> ELSE <<>>)
        \o OKX_BASE_URL_FALLBACKS

_okx_candidate_base_urls(base) ==
    Uniq(<<AppUrl>> \o (IF base # <<>> THEN <<rstrip(base)>> ELSE <<>>)
            \o OKX_BASE_URL_FALLBACKS,
         <<>>, {})

\* What one _okx_verify call can return: the instrument is listed, it is
\* not, the request raised a RequestException, or anything else was raised.
OkxVerifyOutcomes ==
    {[ok |-> TRUE, reason |-> "ok"],
     [ok |-> FALSE, reason |-> "symbol_not_found"],
     [ok |-> FALSE, reason |-> "network_error"],
     [ok |-> FALSE, reason |-> "verify_error"]}

InitResolve ==
    /\ rs_pc = "loop"
    /\ base_url \in BaseUrls
    /\ rs_i = 1
    /\ rs_calls = <<>>
    /\ rs_verify = None
    /\ attempts = <<>>
    /\ final_reason = "network_error"
    /\ resolved = None

nonRs == <<detVars, caVars, cvVars, getVars, dmVars, recent, restVars>>

\* ok, reason = _okx_verify(session, candidate, symbol)
RsVerify ==
    /\ rs_pc = "loop"
    /\ rs_i <= Len(_okx_candidate_base_urls(base_url))
    /\ \E out \in OkxVerifyOutcomes : rs_verify' = Some(out)
    /\ rs_calls' = Append(rs_calls, _okx_candidate_base_urls(base_url)[rs_i])
    /\ rs_pc' = "record"
    /\ UNCHANGED <<base_url, rs_i, attempts, final_reason, resolved, nonRs>>

\* The rest of the loop body: the attempt is recorded, and the candidate is
\* returned if it verified.
RsRecord ==
    /\ rs_pc = "record"
    /\ LET candidate == _okx_candidate_base_urls(base_url)[rs_i]
           v == Val(rs_verify)
       IN  /\ attempts' = Append(attempts, [base_url |-> candidate,
                                            verify_status |-> v.reason])
           /\ IF v.ok
              THEN /\ resolved' = Some([base_url |-> Some(candidate), reason |-> "ok"])
                   /\ rs_pc' = "returned"
                   /\ UNCHANGED <<final_reason, rs_i>>
              ELSE /\ final_reason' = v.reason
                   /\ rs_i' = rs_i + 1
                   /\ rs_pc' = "loop"
                   /\ UNCHANGED resolved
    /\ rs_verify' = None
    /\ UNCHANGED <<base_url, rs_calls, nonRs>>

\* The loop ran out of candidates: return None, attempts, final_reason.
RsExhausted ==
    /\ rs_pc = "loop"
    /\ rs_i > Len(_okx_candidate_base_urls(base_url))
    /\ resolved' = Some([base_url |-> None, reason |-> final_reason])
    /\ rs_pc' = "returned"
    /\ UNCHANGED <<base_url, rs_i, rs_calls, rs_verify, attempts, final_reason, nonRs>>

ResolveInit ==
    DetIdle /\ CaIdle /\ CvIdle /\ GetIdle /\ DmIdle /\ recent = <<>> /\ RestIdle
        /\ InitResolve

NextResolve ==
    \/ RsVerify
    \/ RsRecord
    \/ RsExhausted

SpecResolve == ResolveInit /\ [][NextResolve]_vars

\* The order the candidates are to be tried in: app.okx.com, the configured
\* endpoint (without trailing slashes) when one is configured, my.okx.com,
\* www.okx.com, each kept at its first occurrence only.
PreferenceOrder ==
    LET all == <<AppUrl>> \o (IF base_url # <<>> THEN <<rstrip(base_url)>> ELSE <<>>)
                 \o <<MyUrl, WwwUrl>>
        first(k) == \A j \in 1..(k - 1) : all[j] # all[k]
        F[k \in 0..Len(all)] ==
            IF k = 0 THEN <<>>
            ELSE IF first(k) THEN Append(F[k - 1], all[k]) ELSE F[k - 1]
    IN  F[Len(all)]

\* C13: the endpoints are verified one by one in the preference order, none
\* after one that verified; attempts ends up with one (endpoint, status)
\* entry per endpoint tried, in order; the first endpoint that verifies is
\* returned with reason "ok", and when none verifies no endpoint is
\* returned, together with the status of the last one tried.
C13_Theorem ==
    /\ rs_pc # "idle" =>
          /\ Len(rs_calls) <= Len(PreferenceOrder)
          /\ \A k \in 1..Len(rs_calls) : rs_calls[k] = PreferenceOrder[k]
          /\ Len(attempts) \in {Len(rs_calls), Len(rs_calls) - 1}
          /\ \A k \in 1..Len(attempts) :
                attempts[k].verify_status = "ok" => k = Len(rs_calls)
    /\ rs_pc = "returned" =>
          /\ Len(attempts) = Len(rs_calls)
          /\ \A k \in 1..Len(attempts) : attempts[k].base_url = rs_calls[k]
          /\ IF \E k \in 1..Len(attempts) : attempts[k].verify_status = "ok"
             THEN /\ Val(resolved).base_url = Some(attempts[Len(attempts)].base_url)
                  /\ Val(resolved).reason = "ok"
             ELSE /\ Val(resolved).base_url = None
                  /\ Len(attempts) = Len(PreferenceOrder)
                  /\ Val(resolved).reason = attempts[Len(attempts)].verify_status

\* The configured endpoint is my.okx.com with a trailing slash; app.okx.com
\* is unreachable and my.okx.com verifies.
C13_Witness ==
    /\ rs_pc = "returned"
    /\ base_url = MyUrl \o <<"/">>
    /\ Val(resolved).base_url = Some(MyUrl)
    /\ Len(attempts) = 2
    /\ attempts[1] = [base_url |-> AppUrl, verify_status |-> "network_error"]
\* ======================================================================
\* _get: the GET request with retries
\* ======================================================================
MAX_RETRIES == 3
\* RETRY_BASE_SECONDS = 1.0, in seconds
RETRY_BASE_SECONDS == 1

\* What one session.get(...) followed by raise_for_status() and json() can
\* do: answer with a status (and, for a status that is no error, a body that
\* is JSON or is not), or raise Timeout, ConnectionError or some other
\* RequestException.
GetOutcomes ==
    [kind : {"response"}, status : {400, 404, 429, 499, 500, 503}, json : {TRUE}]
        \cup [kind : {"response"}, status : {200, 301}, json : BOOLEAN]
        \cup [kind : {"Timeout", "ConnectionError", "RequestException"},
              status : {0}, json : {FALSE}]

\* raise_for_status(): HTTPError for 400 <= status < 600
RaisesHTTPError(out) == out.kind = "response" /\ out.status >= 400 /\ out.status < 600

\* The handling of one attempt's outcome:
\*   "return"   resp.json() is returned
\*   "retry"    the error is kept in last_error, then sleep
\*   "retry429" sleep and continue; last_error is left as it is
\*   "raise"    the exception propagates
retries_every_http_error(out) ==
    IF out.kind = "response" /\ out.status = 429 THEN "retry429"
    ELSE IF out.kind \in {"Timeout", "ConnectionError"} THEN "retry"
    ELSE IF RaisesHTTPError(out) THEN "retry"
    ELSE IF out.kind = "response" /\ out.json THEN "return"
    ELSE "raise"

Handling(out) ==
    IF out.kind = "response" /\ out.status = 429 THEN "retry429"
    ELSE IF out.kind \in {"Timeout", "ConnectionError"} THEN "retry"
    ELSE IF RaisesHTTPError(out)
         THEN IF out.status >= 500 THEN "retry" ELSE "raise"
    ELSE IF out.kind = "response" /\ out.json THEN "return"
    ELSE "raise"

linear_backoff(k) == RETRY_BASE_SECONDS * (k + 1)

\* wait = RETRY_BASE_SECONDS * (2 ** attempt)
BackoffWait(k) == RETRY_BASE_SECONDS * 2^k

InitGet ==
    /\ get_pc = "request"
    /\ attempt = 0
    /\ last_error = None
    /\ responses = <<>>
    /\ sleeps = <<>>
    /\ get_result = None

nonGet == <<detVars, caVars, cvVars, rsVars, dmVars, recent, restVars>>

\* One pass through the try block.
GetRequest ==
    /\ get_pc = "request"
    /\ attempt < MAX_RETRIES
    /\ \E out \in GetOutcomes :
          /\ responses' = Append(responses, out)
          /\ CASE Handling(out) = "return" ->
                    /\ get_result' = Some([how |-> "returned", what |-> out])
                    /\ get_pc' = "done"
                    /\ UNCHANGED last_error
               [] Handling(out) = "raise" ->
                    /\ get_result' = Some([how |-> "raised", what |-> out])
                    /\ get_pc' = "done"
                    /\ UNCHANGED last_error
               [] Handling(out) = "retry" ->
                    /\ last_error' = Some(out)
                    /\ get_pc' = "sleep"
                    /\ UNCHANGED get_result
               [] Handling(out) = "retry429" ->
                    /\ get_pc' = "sleep"
                    /\ UNCHANGED <<last_error, get_result>>
    /\ UNCHANGED <<attempt, sleeps, nonGet>>

\* time.sleep(wait), then the next iteration.
GetSleep ==
    /\ get_pc = "sleep"
    /\ sleeps' = Append(sleeps, BackoffWait(attempt))
    /\ attempt' = attempt + 1
    /\ get_pc' = "request"
    /\ UNCHANGED <<last_error, responses, get_result, nonGet>>

\* raise last_error after the loop; with last_error None the raise
\* statement itself fails with TypeError.
GetExhausted ==
    /\ get_pc = "request"
    /\ attempt >= MAX_RETRIES
    /\ get_result' = Some([how |-> "raised",
                           what |-> IF IsNone(last_error)
                                    THEN [kind |-> "TypeError", status |-> 0,
                                          json |-> FALSE]
                                    ELSE Val(last_error)])
    /\ get_pc' = "done"
    /\ UNCHANGED <<attempt, last_error, responses, sleeps, nonGet>>

GetInit ==
    DetIdle /\ CaIdle /\ CvIdle /\ RsIdle /\ DmIdle /\ recent = <<>> /\ RestIdle
        /\ InitGet

NextGet ==
    \/ GetRequest
    \/ GetSleep
    \/ GetExhausted

SpecGet == GetInit /\ [][NextGet]_vars

\* session.get has a timeout and time.sleep returns: the thread that runs
\* _get keeps taking its steps.
SpecGetFair == SpecGet /\ WF_vars(NextGet)

Transient(out) ==
    \/ out.kind \in {"Timeout", "ConnectionError"}
    \/ out.kind = "response" /\ out.status >= 500
    \/ out.kind = "response" /\ out.status = 429

C14_Safe ==
    get_pc # "idle" =>
        /\ Len(responses) <= 3
        /\ \A k \in 2..Len(responses) : Transient(responses[k - 1])
        /\ Len(sleeps) <= Len(responses)
        /\ \A k \in 1..Len(sleeps) :
              /\ Transient(responses[k])
              /\ sleeps[k] = RETRY_BASE_SECONDS * 2^(k - 1)
        /\ get_pc \in {"request", "done"} =>
              Len(sleeps) = Cardinality({k \in 1..Len(responses) :
                                            Transient(responses[k])})

\* C14: one _get call makes at most three requests and comes to an end; a
\* request other than the first follows an attempt that ended in a timeout,
\* a connection error, a 5xx or a 429, and the wait after failed attempt k
\* (from 0) is RETRY_BASE_SECONDS * 2^k.
C14_Theorem == []C14_Safe /\ <>(get_pc = "done")

\* Three attempts were made; the waits were 1, 2 and 4 seconds.
C14_Witness ==
    /\ get_pc = "done"
    /\ Len(responses) = 3
    /\ sleeps = <<1, 2, 4>>
    /\ responses[1].kind = "Timeout" /\ responses[2].status = 429
    /\ responses[3].status = 503

NonRetriable(out) ==
    out.kind = "response" /\ out.status >= 400 /\ out.status < 500 /\ out.status # 429

\* C15: an attempt that received a status from 400 to 499 other than 429 is
\* the last one: _get has ended by raising that error, without a wait after
\* the attempt and without another request.
C15_Theorem ==
    \A k \in 1..Len(responses) :
        NonRetriable(responses[k]) =>
            /\ k = Len(responses)
            /\ Len(sleeps) = k - 1
            /\ get_pc = "done"
            /\ get_result = Some([how |-> "raised", what |-> responses[k]])

\* A 404 on the second attempt, after a 500 on the first.
C15_Witness ==
    /\ Len(responses) = 2
    /\ responses[1].status = 500
    /\ responses[2].status = 404
    /\ get_pc = "done"
\* ======================================================================
\* run_daemon and run_once: the cycle, the shutdown flag, the error status
\* ======================================================================
MaxSchedule == 2
MaxCycles == 2

\* config.venues, in file order
DmVenues == <<"binance", "okx">>

\* The steps of run_once_cycle after its prologue: collect_all for all
\* venues at once, then one loop over the venues for each of enrichment,
\* save_snapshot, compute_baselines/save_baseline and
\* run_all_checks/save_alert, then the output and the final status.
LoopSteps == <<"enrich", "persist", "baseline", "detect">>

StepIndex(name) == CHOOSE k \in 1..Len(LoopSteps) : LoopSteps[k] = name

next_pos_venue_by_venue(p) ==
    IF p.name = "collect" THEN [name |-> "enrich", i |-> 1]
    ELSE IF StepIndex(p.name) < Len(LoopSteps)
         THEN [name |-> LoopSteps[StepIndex(p.name) + 1], i |-> p.i]
         ELSE IF p.i < Len(DmVenues)
              THEN [name |-> "enrich", i |-> p.i + 1]
              ELSE [name |-> "output", i |-> 0]

\* What follows step p when p did not raise.
NextPos(p) ==
    IF p.name = "collect" THEN [name |-> "enrich", i |-> 1]
    ELSE IF p.i < Len(DmVenues) THEN [name |-> p.name, i |-> p.i + 1]
    ELSE IF StepIndex(p.name) < Len(LoopSteps)
         THEN [name |-> LoopSteps[StepIndex(p.name) + 1], i |-> 1]
         ELSE [name |-> "output", i |-> 0]

loop_ignores_flag(flag) == TRUE

\* while not _shutdown
LoopContinues(flag) == ~flag

running_not_recorded(rt) == [rt EXCEPT !.cycle_seq = @ + 1, !.last_error = None]

\* The prologue of run_once_cycle: set_runtime_states at its start.
RunningStates(rt) ==
    [rt EXCEPT !.cycle_seq = @ + 1, !.last_cycle_status = "running",
               !.last_error = None]

error_keeps_status(rt, e) == [rt EXCEPT !.last_error = Some(e)]

\* The except blocks of run_daemon and run_once.
ErrorStates(rt, e) ==
    [rt EXCEPT !.last_cycle_status = "error", !.last_error = Some(e)]

\* The set_runtime_states at the end of run_once_cycle.  last_success_utc
\* is the time the cycle ended, represented by the number of the cycle.
OkStates(rt) ==
    [rt EXCEPT !.last_cycle_status = "ok", !.last_success_utc = Some(rt.cycle_seq)]

InitDaemon ==
    /\ dm_pc = "enter"
    /\ dm_mode \in {"run_daemon", "run_once"}
    /\ schedule_seconds \in 0..MaxSchedule
    /\ _shutdown = FALSE
    /\ runtime = [mode |-> "", daemon_status |-> "", cycle_seq |-> 0,
                  last_cycle_status |-> "", last_error |-> None,
                  last_success_utc |-> None]
    /\ pos = [name |-> "", i |-> 0]
    /\ events = <<>>
    /\ dm_exc = None
    /\ wait_left = 0
    /\ starts = <<>>
    /\ ended = <<>>

nonDm == <<detVars, caVars, cvVars, rsVars, getVars, recent, restVars>>

\* run_daemon up to its loop (handlers installed, Storage opened, mode
\* recorded) or run_once up to its call of run_once_cycle.
Enter ==
    /\ dm_pc = "enter"
    /\ IF dm_mode = "run_daemon"
       THEN /\ runtime' = [runtime EXCEPT !.mode = "run_daemon",
                                          !.daemon_status = "running"]
            /\ dm_pc' = "loop_test"
            /\ UNCHANGED starts
       ELSE /\ runtime' = [runtime EXCEPT !.mode = "run_once",
                                          !.daemon_status = "stopped"]
            /\ dm_pc' = "call"
            /\ starts' = Append(starts, [at_test |-> FALSE, at_start |-> FALSE])
    /\ UNCHANGED <<dm_mode, schedule_seconds, _shutdown, pos, events, dm_exc,
                   wait_left, ended, nonDm>>

\* _signal_handler, run by the interpreter between two instructions of the
\* main thread once run_daemon has installed it.
Signal ==
    /\ dm_mode = "run_daemon"
    /\ dm_pc \notin {"enter", "stopped"}
    /\ _shutdown' = TRUE
    /\ UNCHANGED <<dm_pc, dm_mode, schedule_seconds, runtime, pos, events, dm_exc,
                   wait_left, starts, ended, nonDm>>

\* The test of the while loop.
LoopTest ==
    /\ dm_pc = "loop_test"
    /\ IF LoopContinues(_shutdown)
       THEN /\ Len(starts) < MaxCycles
            /\ dm_pc' = "call"
            /\ starts' = Append(starts, [at_test |-> _shutdown, at_start |-> FALSE])
       ELSE /\ dm_pc' = "finally"
            /\ UNCHANGED starts
    /\ UNCHANGED <<dm_mode, schedule_seconds, _shutdown, runtime, pos, events,
                   dm_exc, wait_left, ended, nonDm>>

\* run_once_cycle is entered: its prologue, up to collect_all.
CycleStart ==
    /\ dm_pc = "call"
    /\ runtime' = RunningStates(runtime)
    /\ starts' = [starts EXCEPT ![Len(starts)].at_start = _shutdown]
    /\ pos' = [name |-> "collect", i |-> 0]
    /\ events' = <<>>
    /\ dm_exc' = None
    /\ dm_pc' = "cycle"
    /\ UNCHANGED <<dm_mode, schedule_seconds, _shutdown, wait_left, ended, nonDm>>

\* One step of the cycle runs to its end.
CycleStep ==
    /\ dm_pc = "cycle"
    /\ pos.name # "output"
    /\ events' = Append(events, pos)
    /\ pos' = NextPos(pos)
    /\ UNCHANGED <<dm_pc, dm_mode, schedule_seconds, _shutdown, runtime, dm_exc,
                   wait_left, starts, ended, nonDm>>

\* The output is built and the final status written: run_once_cycle returns.
CycleReturn ==
    /\ dm_pc = "cycle"
    /\ pos.name = "output"
    /\ events' = Append(events, pos)
    /\ runtime' = OkStates(runtime)
    /\ ended' = Append(ended, "returned")
    /\ dm_pc' = "returned"
    /\ UNCHANGED <<dm_mode, schedule_seconds, _shutdown, pos, dm_exc, wait_left,
                   starts, nonDm>>

\* The step at pos raises an Exception, which leaves run_once_cycle.
CycleRaise ==
    /\ dm_pc = "cycle"
    /\ dm_exc' = Some(pos)
    /\ ended' = Append(ended, "raised")
    /\ dm_pc' = "raised"
    /\ UNCHANGED <<dm_mode, schedule_seconds, _shutdown, runtime, pos, events,
                   wait_left, starts, nonDm>>

\* run_daemon after the call: the except block if the cycle raised, then
\* the wait loop begins.
DaemonAfterCycle ==
    /\ dm_mode = "run_daemon"
    /\ dm_pc \in {"returned", "raised"}
    /\ runtime' = IF dm_pc = "raised" THEN ErrorStates(runtime, Val(dm_exc))
                  ELSE runtime
    /\ wait_left' = schedule_seconds
    /\ dm_pc' = "wait"
    /\ UNCHANGED <<dm_mode, schedule_seconds, _shutdown, pos, events, dm_exc,
                   starts, ended, nonDm>>

wait_full_interval ==
    /\ dm_pc = "wait"
    /\ IF wait_left = 0
       THEN dm_pc' = "loop_test" /\ UNCHANGED wait_left
       ELSE wait_left' = wait_left - 1 /\ UNCHANGED dm_pc
    /\ UNCHANGED <<dm_mode, schedule_seconds, _shutdown, runtime, pos, events,
                   dm_exc, starts, ended, nonDm>>

\* One iteration of for _ in range(schedule_seconds), or its end.
WaitStep ==
    /\ dm_pc = "wait"
    /\ IF wait_left = 0 \/ _shutdown
       THEN dm_pc' = "loop_test" /\ UNCHANGED wait_left
       ELSE wait_left' = wait_left - 1 /\ UNCHANGED dm_pc
    /\ UNCHANGED <<dm_mode, schedule_seconds, _shutdown, runtime, pos, events,
                   dm_exc, starts, ended, nonDm>>

\* The finally block of run_daemon.
DaemonFinally ==
    /\ dm_pc = "finally"
    /\ runtime' = [runtime EXCEPT !.daemon_status = "stopped"]
    /\ dm_pc' = "stopped"
    /\ UNCHANGED <<dm_mode, schedule_seconds, _shutdown, pos, events, dm_exc,
                   wait_left, starts, ended, nonDm>>

\* run_once after the call: the except block records the error and raises
\* again; Storage is closed either way.
OnceAfterCycle ==
    /\ dm_mode = "run_once"
    /\ dm_pc \in {"returned", "raised"}
    /\ IF dm_pc = "raised"
       THEN /\ runtime' = ErrorStates(runtime, Val(dm_exc))
            /\ dm_pc' = "propagated"
       ELSE /\ dm_pc' = "stopped"
            /\ UNCHANGED runtime
    /\ UNCHANGED <<dm_mode, schedule_seconds, _shutdown, pos, events, dm_exc,
                   wait_left, starts, ended, nonDm>>

DaemonInit ==
    DetIdle /\ CaIdle /\ CvIdle /\ RsIdle /\ GetIdle /\ recent = <<>> /\ RestIdle
        /\ InitDaemon

NextDaemon ==
    \/ Enter
    \/ Signal
    \/ LoopTest
    \/ CycleStart
    \/ CycleStep
    \/ CycleReturn
    \/ CycleRaise
    \/ DaemonAfterCycle
    \/ WaitStep
    \/ DaemonFinally
    \/ OnceAfterCycle

SpecDaemon == DaemonInit /\ [][NextDaemon]_vars
\* The order the claim gives: collection, then enrichment, persistence,
\* baseline and detection, each for every venue, then the output.
CycleOrder ==
    LET n == Len(DmVenues)
        names == <<"enrich", "persist", "baseline", "detect">>
    IN  <<[name |-> "collect", i |-> 0]>>
          \o [k \in 1..(4 * n) |->
                [name |-> names[((k - 1) \div n) + 1], i |-> ((k - 1) % n) + 1]]
          \o <<[name |-> "output", i |-> 0]>>

IsPrefix(s, t) == Len(s) <= Len(t) /\ \A k \in 1..Len(s) : s[k] = t[k]

\* C16: the steps a cycle has completed are an initial part of: collect,
\* enrich every venue, persist every venue, baseline of every venue, detect
\* for every venue; and a cycle is begun only when every cycle begun before
\* it has returned or raised.
C16_Theorem ==
    dm_pc # "idle" =>
        /\ IsPrefix(events, CycleOrder)
        /\ dm_pc = "returned" => events = CycleOrder
        /\ Len(starts) - Len(ended) \in {0, 1}
        /\ Len(starts) - Len(ended) = 1 <=> dm_pc \in {"call", "cycle"}

\* The daemon's second cycle has run through all its steps after the first
\* one raised.
C16_Witness ==
    /\ dm_mode = "run_daemon"
    /\ dm_pc = "returned"
    /\ ended = <<"raised", "returned">>
    /\ events = CycleOrder

\* The signal handler changes the flag and nothing else.
SignalOnlySetsFlag ==
    _shutdown' # _shutdown =>
        /\ _shutdown'
        /\ UNCHANGED <<dm_pc, dm_mode, schedule_seconds, runtime, pos, events,
                       dm_exc, wait_left, starts, ended>>

\* A cycle that has begun goes on whatever the flag is: it can always take
\* its next step, and it ends by returning after all its steps or by an
\* exception of the step it was at.
NeverAborted ==
    /\ dm_pc = "cycle" => ENABLED (CycleStep \/ CycleReturn)
    /\ dm_pc = "returned" => events = CycleOrder
    /\ dm_pc = "raised" =>
          /\ dm_exc = Some(pos)
          /\ IsPrefix(events, CycleOrder)
          /\ CycleOrder[Len(events) + 1] = pos

C17_ClaimState ==
    dm_mode = "run_daemon" =>
        /\ NeverAborted
        /\ \A k \in 1..Len(starts) : ~starts[k].at_start

C17_State ==
    dm_mode = "run_daemon" =>
        /\ NeverAborted
        /\ \A k \in 1..Len(starts) :
              /\ ~starts[k].at_test
              /\ starts[k].at_start => k = Len(starts)
        /\ dm_pc \in {"finally", "stopped"} => _shutdown

LastRaised == ended # <<>> /\ ended[Len(ended)] = "raised"

\* C18: when run_once_cycle raised, the daemon has caught the exception:
\* from the except block until the next cycle begins the status is "error"
\* and last_error is the exception's message, and the daemon leaves its
\* loop only because of the shutdown flag; run_once records the same status
\* and lets the exception propagate.
C18_Theorem ==
    /\ (dm_mode = "run_daemon" /\ dm_pc = "raised") => ENABLED DaemonAfterCycle
    /\ (dm_mode = "run_daemon" /\ LastRaised
          /\ dm_pc \in {"wait", "loop_test", "call", "finally", "stopped"}) =>
            /\ runtime.last_cycle_status = "error"
            /\ dm_exc # None /\ runtime.last_error = dm_exc
    /\ (dm_mode = "run_daemon" /\ dm_pc \in {"finally", "stopped"}) => _shutdown
    /\ (dm_mode = "run_once" /\ LastRaised /\ dm_pc # "raised") =>
            /\ dm_pc = "propagated"
            /\ runtime.last_cycle_status = "error"
            /\ dm_exc # None /\ runtime.last_error = dm_exc

\* The daemon's second cycle is under way after the first one raised in
\* save_snapshot.
C18_Witness ==
    /\ dm_mode = "run_daemon"
    /\ dm_pc = "cycle"
    /\ ended = <<"raised">>
    /\ Len(starts) = 2
    /\ runtime.cycle_seq = 2
\* The cycles that have returned, by number.
ReturnedCycles == {k \in 1..Len(ended) : ended[k] = "returned"}

LastReturned == ended # <<>> /\ ended[Len(ended)] = "returned"

\* C29: last_cycle_status is "running" from the prologue of a cycle until
\* the cycle returns or its exception is handled, "ok" once it has returned
\* and "error" once its exception has been handled, until the next cycle
\* begins; "ok" is never the status after a cycle that raised, and
\* last_success_utc is the end of the latest cycle that returned (absent
\* when none has).
C29_Theorem ==
    dm_pc \notin {"idle", "enter"} =>
        /\ dm_pc \in {"cycle", "raised"} =>
              /\ runtime.last_cycle_status = "running"
              /\ runtime.cycle_seq = Len(starts)
        /\ (LastReturned /\ dm_pc \notin {"cycle", "raised"}) =>
              /\ runtime.last_cycle_status = "ok"
              /\ runtime.last_success_utc = Some(Len(ended))
        /\ (LastRaised /\ dm_pc \notin {"cycle", "raised"}) =>
              runtime.last_cycle_status = "error"
        /\ runtime.last_success_utc =
              IF ReturnedCycles = {} THEN None
              ELSE Some(CHOOSE k \in ReturnedCycles : \A j \in ReturnedCycles : j <= k)

\* The daemon's first cycle returned and its second one raised: the status
\* is "error" and last_success_utc is still the end of the first cycle.
C29_Witness ==
    /\ dm_mode = "run_daemon"
    /\ dm_pc = "wait"
    /\ ended = <<"returned", "raised">>
    /\ runtime.last_cycle_status = "error"
    /\ runtime.last_success_utc = Some(1)
\* C19 as stated: no detection pass ends in an exception under the
\* configuration load_config supplies, and a rule 1-3 whose inputs were
\* absent, or any rule on a missing_market Snapshot, produced no Alert.
C19_Claim ==
    /\ ~lastRun.raised
    /\ lastRun.missing_market => lastRun.produced = {}
    /\ \A r \in Rules123 \ (lastRun.breach \cup lastRun.normal) :
          AlertsOfType(lastRun.produced, r) = {}
\* C20 as stated: a pass produces an Alert of rule 1, 2 or 3 only if the
\* rule's condition held in that pass and in each of the two passes right
\* before it; a pass in which the condition could not be evaluated breaks
\* the streak.
C20_Claim ==
    \A r \in Rules123 :
        AlertsOfType(lastRun.produced, r) # {} =>
            /\ r \in lastRun.breach
            /\ r \in recent[1]
            /\ r \in recent[2]
\* ======================================================================
\* calculator.py: single calls
\* ======================================================================
MaxLevels == 2
MaxNotional == 4

nonPf == <<detVars, caVars, cvVars, rsVars, getVars, dmVars, recent, evVars, cyVars>>

PfOthersIdle ==
    /\ DetIdle /\ CaIdle /\ CvIdle /\ RsIdle /\ GetIdle /\ DmIdle /\ recent = <<>>
    /\ EvIdle /\ CyIdle

\* One side of an order book: at most MaxLevels levels <<price, amount>>.
LevelSeqs(prices, amounts) ==
    UNION {[1..n -> prices \X amounts] : n \in 0..MaxLevels}

\* The for loop of calc_impact_cost over the levels, from the state
\* (remaining, total_cost) it is entered with.  Amounts of money are whole
\* numbers of USDT.  total_base is kept in two parts: the amounts of the
\* levels taken whole, and the one partial fill remaining / price, which is
\* not a whole number.  taken lists what each level entered contributed to
\* total_cost.
RECURSIVE ImpactWalk(_, _, _)
ImpactWalk(levels, remaining, total_cost) ==
    IF levels = <<>> \/ remaining <= 0
    THEN [remaining |-> remaining, total_cost |-> total_cost,
          base_whole |-> 0, partial |-> None, taken |-> <<>>]
    ELSE LET price == Head(levels)[1]
             amount == Head(levels)[2]
             level_notional == price * amount
         IN  IF level_notional <= remaining
             THEN LET w == ImpactWalk(Tail(levels), remaining - level_notional,
                                      total_cost + level_notional)
                  IN  [w EXCEPT !.base_whole = @ + amount,
                                !.taken = <<level_notional>> \o @]
             ELSE LET w == ImpactWalk(Tail(levels), 0, total_cost + remaining)
                  IN  [w EXCEPT !.partial = Some([notional |-> remaining,
                                                  price |-> price]),
                                !.taken = <<remaining>> \o @]

\* total_cost / total_base as a fraction: total_base is
\* base_whole + notional / price of the partial fill.
AvgFillPrice(w) ==
    IF IsNone(w.partial)
    THEN [num |-> w.total_cost, den |-> w.base_whole]
    ELSE [num |-> w.total_cost * Val(w.partial).price,
          den |-> w.base_whole * Val(w.partial).price + Val(w.partial).notional]

\* total_base > 0
BaseFilled(w) ==
    w.base_whole > 0 \/ (~IsNone(w.partial) /\ Val(w.partial).notional > 0)

impact_avg_from_cost(levels, mid, notional, side) ==
    LET w == ImpactWalk(levels, notional, 0)
    IN  [target_notional |-> notional,
         filled_notional |-> notional - w.remaining,
         insufficient_liquidity |-> w.remaining > 0,
         shortfall |-> IF w.remaining > 0 THEN w.remaining ELSE 0,
         avg_fill_price |-> IF w.total_cost > 0 THEN Some(AvgFillPrice(w)) ELSE None,
         taken |-> w.taken]

impact_without_shortfall(levels, mid, notional, side) ==
    LET w == ImpactWalk(levels, notional, 0)
    IN  [target_notional |-> notional,
         filled_notional |-> notional - w.remaining,
         insufficient_liquidity |-> w.remaining > 0,
         shortfall |-> 0,
         avg_fill_price |-> IF BaseFilled(w) THEN Some(AvgFillPrice(w)) ELSE None,
         taken |-> w.taken]

\* calc_impact_cost, its fields target_notional, filled_notional,
\* insufficient_liquidity, shortfall and avg_fill_price (slip_bps, which
\* depends on mid and side, is left out), with the walk's record of what
\* each level contributed.
calc_impact_cost(levels, mid, notional, side) ==
    LET w == ImpactWalk(levels, notional, 0)
    IN  [target_notional |-> notional,
         filled_notional |-> notional - w.remaining,
         insufficient_liquidity |-> w.remaining > 0,
         shortfall |-> IF w.remaining > 0 THEN w.remaining ELSE 0,
         avg_fill_price |-> IF BaseFilled(w) THEN Some(AvgFillPrice(w)) ELSE None,
         taken |-> w.taken]

\* notional_1 and notional_2 come from the configuration file through
\* float(); load_config does not check their sign.
InitImpact ==
    /\ pf_call \in [fn : {"calc_impact_cost"},
                    levels : LevelSeqs({0, 1, 2, 3}, {0, 1, 3}),
                    mid : {0, 2},
                    notional : (-1)..MaxNotional,
                    side : {"buy", "sell"}]
    /\ pf_ret = None

ImpactCall ==
    /\ pf_call.fn = "calc_impact_cost"
    /\ pf_ret = None
    /\ pf_ret' = Some(calc_impact_cost(pf_call.levels, pf_call.mid,
                                       pf_call.notional, pf_call.side))
    /\ UNCHANGED <<pf_call, nonPf>>

ImpactInit == PfOthersIdle /\ InitImpact

NextImpact == ImpactCall

SpecImpact == ImpactInit /\ [][NextImpact]_vars

ImpactBalanced(r) ==
    /\ r.filled_notional + r.shortfall = r.target_notional
    /\ r.insufficient_liquidity <=> r.shortfall > 0

\* C21 as stated: whatever the levels, mid, side and target notional, the
\* result has filled_notional + shortfall = target_notional and is flagged
\* insufficient_liquidity exactly when shortfall > 0.
C21_Claim ==
    (pf_call # <<>> /\ pf_call.fn = "calc_impact_cost" /\ pf_ret # None) =>
        ImpactBalanced(Val(pf_ret))

\* C21, amended: the same for every target notional that is not negative.
C21_Theorem ==
    (pf_call # <<>> /\ pf_call.fn = "calc_impact_cost" /\ pf_ret # None
        /\ pf_call.notional >= 0) =>
        ImpactBalanced(Val(pf_ret))

\* A target of 4 against levels worth 1 and 2: 3 filled, 1 short.
C21_Witness ==
    /\ pf_call # <<>> /\ pf_call.fn = "calc_impact_cost"
    /\ pf_call.levels = <<<<1, 1>>, <<2, 1>>>>
    /\ pf_call.notional = 4
    /\ pf_ret # None
    /\ Val(pf_ret).filled_notional = 3
    /\ Val(pf_ret).shortfall = 1
    /\ Val(pf_ret).insufficient_liquidity
\* The notional of level k and of the first k levels.
LevelNotional(levels, k) == levels[k][1] * levels[k][2]

RECURSIVE NotionalUpTo(_, _)
NotionalUpTo(levels, k) ==
    IF k = 0 THEN 0 ELSE NotionalUpTo(levels, k - 1) + LevelNotional(levels, k)

Min(a, b) == IF a <= b THEN a ELSE b

\* C32: for a target that is not negative (prices and quantities are not
\* negative), the walk enters the levels in the given order while the
\* target is not yet met, takes from each the whole level if it fits what is
\* left and otherwise exactly what is left, and enters no level after that;
\* filled_notional is min(target, sum of price x quantity); avg_fill_price
\* is absent exactly when no level entered had a quantity above 0.
C32_Theorem ==
    (pf_call # <<>> /\ pf_call.fn = "calc_impact_cost" /\ pf_ret # None
        /\ pf_call.notional >= 0) =>
        LET levels == pf_call.levels
            target == pf_call.notional
            r == Val(pf_ret)
            entered == {k \in DOMAIN levels : NotionalUpTo(levels, k - 1) < target}
        IN  /\ DOMAIN r.taken = entered
            /\ \A k \in entered :
                  r.taken[k] = Min(LevelNotional(levels, k),
                                   target - NotionalUpTo(levels, k - 1))
            /\ r.filled_notional = Min(target, NotionalUpTo(levels, Len(levels)))
            /\ IsNone(r.avg_fill_price) <=> \A k \in entered : levels[k][2] = 0

\* A target of 4 against levels worth 3 and 6: the first whole, 1 of the
\* second (half a unit), at an average price of 8 / 7.
C32_Witness ==
    /\ pf_call # <<>> /\ pf_call.fn = "calc_impact_cost"
    /\ pf_call.levels = <<<<1, 3>>, <<2, 3>>>>
    /\ pf_call.notional = 4
    /\ pf_ret # None
    /\ Val(pf_ret).taken = <<3, 1>>
    /\ Val(pf_ret).filled_notional = 4
    /\ Val(pf_ret).avg_fill_price = Some([num |-> 8, den |-> 7])
\* ======================================================================
\* detector.compute_baselines: single calls
\* ======================================================================
MIN_BASELINE_SAMPLES == 20
MaxRows == 22

\* A row of metrics_snapshot, the columns compute_baselines reads.
MetricsRow(bid, ask, spread, buy, sell) ==
    [depth_1pct_usdt_bid |-> bid, depth_1pct_usdt_ask |-> ask, spread_bps |-> spread,
     slip_bps_buy_n2 |-> buy, slip_bps_sell_n2 |-> sell]

\* Rows of a venue whose order book was there, was there with one-sided
\* metrics, or was not there (ticker only).
RowKinds ==
    {MetricsRow(Some(4), Some(6), Some(10), Some(10), Some(8)),
     MetricsRow(Some(4), None, Some(12), None, Some(8)),
     MetricsRow(None, None, None, None, None)}

\* [v for v in values if v is not None], values being a sequence of optionals
RECURSIVE Filtered(_)
Filtered(values) ==
    IF values = <<>> THEN <<>>
    ELSE IF IsNone(Head(values)) THEN Filtered(Tail(values))
    ELSE <<Val(Head(values))>> \o Filtered(Tail(values))

RECURSIVE SeqSum(_)
SeqSum(s) == IF s = <<>> THEN 0 ELSE Head(s) + SeqSum(Tail(s))

\* _median: None for no value, else statistics.median (the values used are
\* such that the mean of the two middle ones is whole).
_median(values) ==
    LET f == SortSeq(Filtered(values), LAMBDA a, b : a < b)
        n == Len(f)
    IN  IF n = 0 THEN None
        ELSE IF n % 2 = 1 THEN Some(f[(n + 1) \div 2])
        ELSE Some((f[n \div 2] + f[(n \div 2) + 1]) \div 2)

\* _mean: None for no value, else statistics.mean
_mean(values) ==
    LET f == Filtered(values)
    IN  IF f = <<>> THEN None ELSE Some(SeqSum(f) \div Len(f))

BaselineValues(n) ==
    [sample_count |-> n, warming_up |-> TRUE, depth_1pct_total_median |-> None,
     spread_bps_median |-> None, slip_bps_n2_median |-> None,
     volume_24h_mean_7d |-> None]

DepthTotals(rows) ==
    [k \in 1..Len(rows) |->
        IF ~IsNone(rows[k].depth_1pct_usdt_bid) /\ ~IsNone(rows[k].depth_1pct_usdt_ask)
        THEN Some(Val(rows[k].depth_1pct_usdt_bid) + Val(rows[k].depth_1pct_usdt_ask))
        ELSE None]

SlipN2Values(rows) ==
    [k \in 1..Len(rows) |->
        LET vals == (rows[k].slip_bps_buy_n2 \cup rows[k].slip_bps_sell_n2)
        IN  IF vals = {} THEN None
            ELSE Some(CHOOSE m \in vals : \A x \in vals : x <= m)]

warming_up_at_minimum(rows, volumes) ==
    IF rows = <<>> THEN BaselineValues(0)
    ELSE [BaselineValues(Len(rows)) EXCEPT
            !.warming_up = Len(rows) <= MIN_BASELINE_SAMPLES,
            !.depth_1pct_total_median = _median(DepthTotals(rows)),
            !.spread_bps_median = _median([k \in 1..Len(rows) |-> rows[k].spread_bps]),
            !.slip_bps_n2_median = _median(SlipN2Values(rows)),
            !.volume_24h_mean_7d = _mean(volumes)]

\* compute_baselines, given what get_baseline_data and
\* get_recent_volume_data return.
compute_baselines(rows, volumes) ==
    IF rows = <<>> THEN BaselineValues(0)
    ELSE [BaselineValues(Len(rows)) EXCEPT
            !.warming_up = Len(rows) < MIN_BASELINE_SAMPLES,
            !.depth_1pct_total_median = _median(DepthTotals(rows)),
            !.spread_bps_median = _median([k \in 1..Len(rows) |-> rows[k].spread_bps]),
            !.slip_bps_n2_median = _median(SlipN2Values(rows)),
            !.volume_24h_mean_7d = _mean(volumes)]

\* Histories of 0 to MaxRows rows, all of one kind.
InitBaselines ==
    /\ pf_call \in [fn : {"compute_baselines"},
                    rows : {[k \in 1..n |-> r] : n \in 0..MaxRows, r \in RowKinds},
                    volumes : {<<>>, <<Some(10), Some(30)>>}]
    /\ pf_ret = None

BaselinesCall ==
    /\ pf_call.fn = "compute_baselines"
    /\ pf_ret = None
    /\ pf_ret' = Some(compute_baselines(pf_call.rows, pf_call.volumes))
    /\ UNCHANGED <<pf_call, nonPf>>

BaselinesInit == PfOthersIdle /\ InitBaselines

NextBaselines == BaselinesCall

SpecBaselines == BaselinesInit /\ [][NextBaselines]_vars

\* C22: the baseline compute_baselines returns counts the rows it was given
\* and is warming_up exactly when they are fewer than 20, none included.
C22_Theorem ==
    (pf_call # <<>> /\ pf_call.fn = "compute_baselines" /\ pf_ret # None) =>
        /\ Val(pf_ret).sample_count = Len(pf_call.rows)
        /\ Val(pf_ret).warming_up <=> Len(pf_call.rows) < 20

\* Twenty rows: the baseline is ready, with its medians.
C22_Witness ==
    /\ pf_call # <<>> /\ pf_call.fn = "compute_baselines"
    /\ Len(pf_call.rows) = 20
    /\ pf_ret # None
    /\ ~Val(pf_ret).warming_up
    /\ Val(pf_ret).depth_1pct_total_median = Some(10)
\* ======================================================================
\* _check_with_consecutive, statement by statement, by two processes
\* ======================================================================
\* Two processes of the CLI opened on the same database file: the daemon
\* and a single-shot run.  Every SQL statement is atomic and committed at
\* once (autocommit SELECT; INSERT ... ON CONFLICT followed by commit()).
Evaluators == {"run_daemon", "run_once"}
MaxEvals == 3

EvKey == Key("depth_shrink", <<"binance">>, SymbolOf(<<"binance">>))

InitEvaluators ==
    /\ ev_pc = [p \in Evaluators |-> "idle"]
    /\ ev_local = [p \in Evaluators |-> [condition_met |-> FALSE, current |-> 0]]
    /\ ev_count = [p \in Evaluators |-> 0]
    /\ ev_serial = 0

nonEv == <<alerts, now, thresholds, lastRun, streak, run3, caVars, cvVars, rsVars,
           getVars, dmVars, recent, pfVars, cyVars>>

\* _check_with_consecutive is entered with condition_met.
EvBegin(p) ==
    /\ ev_pc[p] = "idle"
    /\ ev_count[p] < MaxEvals
    /\ \E c \in BOOLEAN :
          /\ ev_local' = [ev_local EXCEPT ![p] = [condition_met |-> c, current |-> 0]]
          /\ ev_pc' = [ev_pc EXCEPT ![p] = IF c THEN "get" ELSE "normal"]
    /\ ev_count' = [ev_count EXCEPT ![p] = @ + 1]
    /\ UNCHANGED <<alert_counters, ev_serial, nonEv>>

\* current = storage.get_consecutive_count(counter_key)
EvGet(p) ==
    /\ ev_pc[p] = "get"
    /\ ev_local' = [ev_local EXCEPT
                      ![p].current = get_consecutive_count(alert_counters, EvKey)]
    /\ ev_pc' = [ev_pc EXCEPT ![p] = "update"]
    /\ UNCHANGED <<alert_counters, ev_count, ev_serial, nonEv>>

\* storage.update_consecutive_count(counter_key, current + 1, ts_utc)
EvUpdate(p) ==
    /\ ev_pc[p] = "update"
    /\ alert_counters' =
          update_consecutive_count(alert_counters, EvKey, ev_local[p].current + 1)
    /\ ev_pc' = [ev_pc EXCEPT ![p] =
                    IF ev_local[p].current + 1 >= CONSECUTIVE_THRESHOLD
                    THEN "reset" ELSE "idle"]
    /\ ev_serial' = IF ev_serial + 1 >= CONSECUTIVE_THRESHOLD THEN 0
                    ELSE ev_serial + 1
    /\ UNCHANGED <<ev_local, ev_count, nonEv>>

\* new_count >= CONSECUTIVE_THRESHOLD: reset_consecutive_count, return True
EvReset(p) ==
    /\ ev_pc[p] = "reset"
    /\ alert_counters' = reset_consecutive_count(alert_counters, EvKey)
    /\ ev_pc' = [ev_pc EXCEPT ![p] = "idle"]
    /\ UNCHANGED <<ev_local, ev_count, ev_serial, nonEv>>

\* condition_met is false: reset_consecutive_count, return False
EvNormal(p) ==
    /\ ev_pc[p] = "normal"
    /\ alert_counters' = reset_consecutive_count(alert_counters, EvKey)
    /\ ev_pc' = [ev_pc EXCEPT ![p] = "idle"]
    /\ ev_serial' = 0
    /\ UNCHANGED <<ev_local, ev_count, nonEv>>

EvaluatorsInit ==
    /\ DetIdle /\ CaIdle /\ CvIdle /\ RsIdle /\ GetIdle /\ DmIdle /\ recent = <<>>
    /\ PfIdle /\ CyIdle /\ InitEvaluators

NextEvaluators ==
    \E p \in Evaluators :
        \/ EvBegin(p)
        \/ EvGet(p)
        \/ EvUpdate(p)
        \/ EvReset(p)
        \/ EvNormal(p)

SpecEvaluators == EvaluatorsInit /\ [][NextEvaluators]_vars

\* C23 as stated: the evaluations of one key act on its counter as if each
\* were one atomic step: once they have all ended the stored count is the
\* one that whole evaluations, one after the other, give (no increment is
\* lost), and no evaluation reads a count at or above the threshold, which
\* is only ever written right before the reset to 0.
C23_Claim ==
    ev_pc # EmptyTable =>
        /\ (\A p \in Evaluators : ev_pc[p] = "idle") =>
              get_consecutive_count(alert_counters, EvKey) = ev_serial
        /\ \A p \in Evaluators :
              ev_pc[p] = "update" => ev_local[p].current < CONSECUTIVE_THRESHOLD
\* ======================================================================
\* The counter key and the dedupe key
\* ======================================================================
\* Venues that have handlers (a Snapshot of any other venue is
\* missing_market and reaches no evaluator), as token sequences.
KeyVenues == {<<"binance">>, <<"okx">>, <<"bybit">>}

\* venues.<name>.symbol is any non-empty string of the configuration file;
\* ":" may occur in it.
KeySymbols == {<<"MON">>, <<"USDT">>, <<"MON", ":", "USDT">>, <<":", "MON">>,
               <<"okx", ":", "MON">>}

KeyTriples == AllRules \X KeyVenues \X KeySymbols

InitKeys ==
    /\ pf_call \in [fn : {"key"}, a : KeyTriples, b : KeyTriples]
    /\ pf_ret = None

\* The f-strings of the five evaluators, for two triples.
KeysCall ==
    /\ pf_call.fn = "key"
    /\ pf_ret = None
    /\ pf_ret' = Some(<<Key(pf_call.a[1], pf_call.a[2], pf_call.a[3]),
                        Key(pf_call.b[1], pf_call.b[2], pf_call.b[3])>>)
    /\ UNCHANGED <<pf_call, nonPf>>

KeysInit == PfOthersIdle /\ InitKeys

NextKeys == KeysCall

SpecKeys == KeysInit /\ [][NextKeys]_vars

\* C24: the key is rule, ":", venue, ":", symbol, a function of the triple
\* alone, and two triples have the same key only if they are the same
\* triple.
C24_Theorem ==
    (pf_call # <<>> /\ pf_call.fn = "key" /\ pf_ret # None) =>
        /\ Val(pf_ret)[1] = <<pf_call.a[1], ":">> \o pf_call.a[2] \o <<":">> \o pf_call.a[3]
        /\ Val(pf_ret)[1] = Val(pf_ret)[2] <=> pf_call.a = pf_call.b

\* The same rule and symbol for two venues: two keys.
C24_Witness ==
    /\ pf_call # <<>> /\ pf_call.fn = "key" /\ pf_ret # None
    /\ pf_call.a = <<"depth_shrink", <<"binance">>, <<"MON">>>>
    /\ pf_call.b = <<"depth_shrink", <<"okx">>, <<"MON">>>>
    /\ Val(pf_ret)[1] # Val(pf_ret)[2]
\* ======================================================================
\* storage.check_dedupe against rows of any age and any sampling time
\* ======================================================================
DdKeys == {Key("depth_shrink", <<"binance">>, <<"MON">>),
           Key("volume_spike", <<"binance">>, <<"MON">>)}

nonDd == <<alert_counters, thresholds, lastRun, streak, run3, caVars, cvVars, rsVars,
           getVars, dmVars, recent, evVars, cyVars>>

\* storage.save_alert(alert): created_at is the time of the insert, ts_utc
\* whatever the Alert carries: a sampling time long past, or the present.
DdSave ==
    /\ pf_ret = None
    /\ \E k \in DdKeys, ts \in {0, now} :
          /\ Len(RowsOf(alerts, k)) < MaxRowsPerKey
          /\ alerts' = save_alert(alerts, [dedupe_key |-> k, ts_utc |-> ts], now)
    /\ UNCHANGED <<now, pf_call, pf_ret, nonDd>>

DdTick ==
    /\ pf_ret = None
    /\ now < MaxNow
    /\ now' = now + 1
    /\ UNCHANGED <<alerts, pf_call, pf_ret, nonDd>>

\* storage.check_dedupe(dedupe_key, config.dedupe_window_seconds)
DdCheck ==
    /\ pf_ret = None
    /\ \E k \in DdKeys :
          /\ pf_call' = [fn |-> "check_dedupe", dedupe_key |-> k,
                         window_seconds |-> DedupeWindow, at |-> now,
                         rows |-> RowsOf(alerts, k)]
          /\ pf_ret' = Some(check_dedupe(alerts, k, DedupeWindow, now))
    /\ UNCHANGED <<alerts, now, nonDd>>

DedupeInit == DetIdle /\ CaIdle /\ CvIdle /\ AuxIdle

NextDedupe ==
    \/ DdSave
    \/ DdTick
    \/ DdCheck

SpecDedupe == DedupeInit /\ [][NextDedupe]_vars

InsertedWithin(c) ==
    \E i \in DOMAIN c.rows : c.rows[i].created_at >= c.at - c.window_seconds

\* C25: check_dedupe answers by the insertion time alone: it reports a
\* duplicate exactly when a row of the key was inserted within the window,
\* also when every ts_utc of such rows lies before the window, and it
\* reports none when every row was inserted before the window, also when
\* their ts_utc lie within it.
C25_Theorem ==
    (pf_call # <<>> /\ pf_call.fn = "check_dedupe" /\ pf_ret # None) =>
        Val(pf_ret) <=> InsertedWithin(pf_call)

\* A row inserted at 3 with ts_utc 0 suppresses at 3 with a window of 1.
C25_Witness ==
    /\ pf_call # <<>> /\ pf_call.fn = "check_dedupe"
    /\ pf_call.at = 3
    /\ pf_call.rows = <<[created_at |-> 3, ts_utc |-> 0]>>
    /\ pf_ret = Some(TRUE)
\* ---------------------------------------------------------------------------
\* Unit normalisation of the order book (collector._binance_orderbook,
\* _okx_orderbook, _bybit_orderbook) and calculator.calc_depth_within_pct.
\* Prices and quantities are whole numbers, pct is in whole percent.

levels_without_ct_val(raw, ct_val) == raw

\* bids = [[float(b[0]), float(b[1]) * ct_val] for b in book]: the same
\* comprehension in the three adapters.
orderbook_levels(raw, ct_val) ==
    [i \in DOMAIN raw |-> <<raw[i][1], raw[i][2] * ct_val>>]

\* The ct_val the instrument fetch of each venue hands to its order-book
\* adapter: 1 for Binance and Bybit, ctVal * ctMult for OKX.
VenueCtVal(venue, okx_ct_val) == IF venue = "okx" THEN okx_ct_val ELSE 1

\* price >= mid * (1 - pct / 100), times 100.
InBidRange(price, mid, pct) == 100 * price >= mid * (100 - pct)

\* price <= mid * (1 + pct / 100), times 100.
InAskRange(price, mid, pct) == 100 * price <= mid * (100 + pct)

RECURSIVE calc_depth_within_pct(_, _, _, _)
calc_depth_within_pct(levels, mid, pct, side) ==
    IF levels = <<>> THEN 0
    ELSE LET price == Head(levels)[1]
             amount == Head(levels)[2]
             counted == \/ side = "bid" /\ InBidRange(price, mid, pct)
                        \/ side = "ask" /\ InAskRange(price, mid, pct)
         IN  (IF counted THEN price * amount ELSE 0)
             + calc_depth_within_pct(Tail(levels), mid, pct, side)

\* What a venue that quotes in contracts of ct_val base units sends for a
\* book of the given base quantities.
QuotedInContracts(base, ct_val) ==
    [i \in DOMAIN base |-> <<base[i][1], base[i][2] \div ct_val>>]

\* The response of each venue for one and the same real book.
VenueBook(venue, base, okx_ct_val) ==
    QuotedInContracts(base, VenueCtVal(venue, okx_ct_val))

DepthVenues == {"binance", "okx", "bybit"}

\* A book in base units whose quantities are whole numbers of contracts.
InitDepth ==
    /\ pf_call \in [fn : {"calc_depth_within_pct"},
                    base : LevelSeqs({9, 10, 11}, {0, 4, 6}),
                    ct_val : {1, 2},
                    mid : {10, 11},
                    pct : {0, 10},
                    side : {"bid", "ask"}]
    /\ pf_ret = None

DepthCall ==
    /\ pf_call.fn = "calc_depth_within_pct"
    /\ pf_ret = None
    /\ pf_ret' = Some([v \in DepthVenues |->
                         calc_depth_within_pct(
                             orderbook_levels(
                                 VenueBook(v, pf_call.base, pf_call.ct_val),
                                 VenueCtVal(v, pf_call.ct_val)),
                             pf_call.mid, pf_call.pct, pf_call.side)])
    /\ UNCHANGED <<pf_call, nonPf>>

DepthInit == PfOthersIdle /\ InitDepth

NextDepth == DepthCall

SpecDepth == DepthInit /\ [][NextDepth]_vars

MaxCandles == 25

\* n candles whose last close is c, whose close one hour back is p1 and whose
\* close 24 hours back is p24; every other close is 1.
Candles(n, c, p1, p24) ==
    [i \in 1..n |-> IF i = n THEN c
                    ELSE IF i = n - 1 THEN p1
                    ELSE IF i = n - 24 THEN p24
                    ELSE 1]

CandleSeqs ==
    {Candles(n, c, p1, p24) : n \in {0, 1, 2, MaxCandles},
                              c \in {0, 1, 2}, p1 \in {0, 1, 2}, p24 \in {1, 2}}

calc_pct_change_from_ohlcv(candles, hours) ==
    IF candles = <<>> \/ Len(candles) < hours + 1 THEN None
    ELSE LET current_close == candles[Len(candles)]
             past_close == candles[Len(candles) - hours]
         IN  IF past_close # 0 /\ past_close > 0 /\ current_close # 0
             THEN Some(((current_close - past_close) * 100) \div past_close)
             ELSE None

pct_change_overwritten(snap) ==
    IF snap.missing_market THEN snap
    ELSE IF snap.ohlcv_candles = <<>> THEN snap
    ELSE IF IsNone(snap.ticker) THEN snap
    ELSE LET ticker == Val(snap.ticker)
         IN  [snap EXCEPT !.ticker = Some(
                 [ticker EXCEPT
                    !.pct_change_1h =
                        calc_pct_change_from_ohlcv(snap.ohlcv_candles, 1),
                    !.pct_change_24h =
                        calc_pct_change_from_ohlcv(snap.ohlcv_candles, 24)])]

\* if ohlcv_candles: ... if snapshot.ticker: if pct_change_1h is None: ...
\* after the early return for a missing_market snapshot.
enrich_pct_change(snap) ==
    IF snap.missing_market THEN snap
    ELSE IF snap.ohlcv_candles = <<>> THEN snap
    ELSE IF IsNone(snap.ticker) THEN snap
    ELSE LET ticker == Val(snap.ticker)
         IN  [snap EXCEPT !.ticker = Some(
                 [ticker EXCEPT
                    !.pct_change_1h =
                        IF IsNone(ticker.pct_change_1h)
                        THEN calc_pct_change_from_ohlcv(snap.ohlcv_candles, 1)
                        ELSE ticker.pct_change_1h,
                    !.pct_change_24h =
                        IF IsNone(ticker.pct_change_24h)
                        THEN calc_pct_change_from_ohlcv(snap.ohlcv_candles, 24)
                        ELSE ticker.pct_change_24h])]

\* TickerData as the venue adapters build it: pct_change_24h from the venue
\* where it sends one (0 is a value), pct_change_1h defaulting to None.
TickerValues ==
    [pct_change_1h : {None, Some(0), Some(7)},
     pct_change_24h : {None, Some(0), Some(7)}]

InitPctChange ==
    /\ pf_call \in [fn : {"enrich_snapshot"},
                    snapshot : [missing_market : BOOLEAN,
                                ticker : {None} \cup {Some(t) : t \in TickerValues},
                                ohlcv_candles : CandleSeqs]]
    /\ pf_ret = None

PctChangeCall ==
    /\ pf_call.fn = "enrich_snapshot"
    /\ pf_ret = None
    /\ pf_ret' = Some(enrich_pct_change(pf_call.snapshot))
    /\ UNCHANGED <<pf_call, nonPf>>

PctChangeInit == PfOthersIdle /\ InitPctChange

NextPctChange == PctChangeCall

SpecPctChange == PctChangeInit /\ [][NextPctChange]_vars

\* The field keeps the venue's value when there is one, and otherwise holds
\* either nothing or the value computed from the candles.
Precedence(before, after, candles, hours) ==
    IF before # None THEN after = before
    ELSE after \in {None, calc_pct_change_from_ohlcv(candles, hours)}

\* C27: enrich_snapshot changes ticker.pct_change_1h / pct_change_24h only
\* when the venue supplied no value, and then to the candle-derived one; a
\* value present on the ticker is returned unchanged.
C27_Theorem ==
    (pf_call # <<>> /\ pf_call.fn = "enrich_snapshot" /\ pf_ret # None)
        => LET s == pf_call.snapshot
               r == Val(pf_ret)
           IN  /\ IsNone(s.ticker) <=> IsNone(r.ticker)
               /\ ~IsNone(s.ticker) =>
                    /\ Precedence(Val(s.ticker).pct_change_1h,
                                  Val(r.ticker).pct_change_1h, s.ohlcv_candles, 1)
                    /\ Precedence(Val(s.ticker).pct_change_24h,
                                  Val(r.ticker).pct_change_24h, s.ohlcv_candles, 24)

C27_Witness ==
    /\ pf_call # <<>> /\ pf_call.fn = "enrich_snapshot"
    /\ ~pf_call.snapshot.missing_market
    /\ pf_call.snapshot.ohlcv_candles = Candles(MaxCandles, 2, 1, 2)
    /\ pf_call.snapshot.ticker =
           Some([pct_change_1h |-> None, pct_change_24h |-> Some(7)])
    /\ pf_ret # None
    /\ Val(pf_ret).ticker =
           Some([pct_change_1h |-> Some(100), pct_change_24h |-> Some(7)])
\* ---------------------------------------------------------------------------
\* A detection pass has just run on a missing_market Snapshot.
MissingMarketPass == lastRun'.seq # lastRun.seq /\ lastRun'.missing_market

\* C28: a pass of run_all_checks on a missing_market Snapshot returns the
\* empty list whatever the baseline and whatever is stored: no rule is
\* evaluated, no Alert is produced (so none is looked up in the dedupe
\* history or saved), and every consecutive counter keeps its value.
C28_Theorem ==
    [][MissingMarketPass =>
          /\ lastRun'.returned = {} /\ lastRun'.produced = {}
          /\ lastRun'.breach = {} /\ lastRun'.normal = {}
          /\ ~lastRun'.raised
          /\ alert_counters' = alert_counters
          /\ alerts' = alerts]_vars

C28_Witness ==
    /\ lastRun.missing_market
    /\ lastRun.seq = 1
    /\ ~lastRun.warming_up
    /\ \E k \in DOMAIN alert_counters : alert_counters[k] = 2
    /\ \E k \in DOMAIN alerts : alerts[k] # <<>>
\* ---------------------------------------------------------------------------
\* web/server.py, MonitorRepository.get_overview: the entry of each venue,
\* computed from the metrics_snapshot table.  A row's id is its position in
\* the table; ts_utc values are numbers in the order of the stored strings.

MaxSnapRows == 3
MaxTs == 2

SnapshotRow(venue, ts, missing, price, spread, volume, bid, ask, buy, sell) ==
    [venue |-> venue, ts_utc |-> ts, missing_market |-> missing,
     last_price |-> price, spread_bps |-> spread, quote_volume_24h |-> volume,
     depth_1pct_usdt_bid |-> bid, depth_1pct_usdt_ask |-> ask,
     slip_bps_buy_n2 |-> buy, slip_bps_sell_n2 |-> sell]

\* What save_snapshot stores for a missing_market Snapshot, for one whose
\* order book failed, and for a complete one.
MissingRow(venue, ts) ==
    SnapshotRow(venue, ts, TRUE, None, None, None, None, None, None, None)

TickerRow(venue, ts) ==
    SnapshotRow(venue, ts, FALSE, Some(20 + ts), None, Some(50), None, None, None, None)

FullRow(venue, ts) ==
    SnapshotRow(venue, ts, FALSE, Some(20 + ts), Some(4), Some(50),
                Some(30), Some(40), Some(6), Some(8))

SnapshotRows ==
    {MissingRow("okx", ts) : ts \in 1..MaxTs}
        \cup {TickerRow("okx", ts) : ts \in 1..MaxTs}
        \cup {FullRow("okx", ts) : ts \in 1..MaxTs}
        \cup {FullRow("binance", MaxTs)}

\* ROW_NUMBER() OVER (PARTITION BY venue ORDER BY ts_utc DESC, id DESC) over
\* the rows with the ids in among.
RowNumber(rows, among, i) ==
    1 + Cardinality({j \in among :
                        /\ rows[j].venue = rows[i].venue
                        /\ \/ rows[j].ts_utc > rows[i].ts_utc
                           \/ rows[j].ts_utc = rows[i].ts_utc /\ j > i})

\* {row["venue"]: dict(row)} of the rows WHERE rn = 1.
RankedFirst(rows, among) ==
    [v \in {rows[i].venue : i \in among} |->
        rows[CHOOSE i \in among : rows[i].venue = v /\ RowNumber(rows, among, i) = 1]]

latest_current_map(rows) == RankedFirst(rows, DOMAIN rows)

latest_success_map(rows) ==
    RankedFirst(rows, {i \in DOMAIN rows : ~rows[i].missing_market})

\* _safe_float on a REAL column: None for NULL, the number otherwise.
_safe_float(value) == value

OrZero(o) == IF IsNone(o) THEN 0 ELSE Val(o)

\* depth_total and slip_n2 of the entry.
DepthTotal(row) ==
    IF IsNone(_safe_float(row.depth_1pct_usdt_bid))
          /\ IsNone(_safe_float(row.depth_1pct_usdt_ask))
    THEN None
    ELSE Some(OrZero(row.depth_1pct_usdt_bid) + OrZero(row.depth_1pct_usdt_ask))

SlipN2(row) ==
    LET slip_buy == _safe_float(row.slip_bps_buy_n2)
        slip_sell == _safe_float(row.slip_bps_sell_n2)
    IN  IF ~IsNone(slip_buy) /\ ~IsNone(slip_sell)
        THEN Some((Val(slip_buy) + Val(slip_sell)) \div 2)
        ELSE IF ~IsNone(slip_buy) THEN slip_buy
        ELSE slip_sell

\* The entry built from current_row and success_row; is_stale is whether
\* the age of the current row exceeds the stale threshold.
VenueEntry(venue, current_row, success_ts, is_stale) ==
    LET depth_total == DepthTotal(current_row)
        slip_n2 == SlipN2(current_row)
        spread_now == _safe_float(current_row.spread_bps)
        volume_now == _safe_float(current_row.quote_volume_24h)
        last_price_now == _safe_float(current_row.last_price)
        missing_market == current_row.missing_market
        has_metrics == \E v \in {last_price_now, spread_now, depth_total,
                                 volume_now, slip_n2} : ~IsNone(v)
        status == IF missing_market
                  THEN IF has_metrics THEN "degraded" ELSE "down"
                  ELSE IF is_stale THEN "stale"
                  ELSE IF has_metrics THEN "ok" ELSE "degraded"
    IN  [venue |-> venue, status |-> status, missing_market |-> missing_market,
         snapshot_ts_utc |-> Some(current_row.ts_utc),
         last_success_ts_utc |-> success_ts,
         last_price |-> last_price_now, quote_volume_24h |-> volume_now,
         spread_bps |-> spread_now, depth_1pct_total_usdt |-> depth_total,
         slip_bps_n2 |-> slip_n2]

SuccessTs(rows, venue) ==
    IF venue \in DOMAIN latest_success_map(rows)
    THEN Some(latest_success_map(rows)[venue].ts_utc)
    ELSE None

overview_backfilled(rows, is_stale) ==
    [v \in DOMAIN latest_current_map(rows) |->
        VenueEntry(v,
                   IF latest_current_map(rows)[v].missing_market
                         /\ v \in DOMAIN latest_success_map(rows)
                   THEN [latest_success_map(rows)[v] EXCEPT !.missing_market = TRUE]
                   ELSE latest_current_map(rows)[v],
                   SuccessTs(rows, v), is_stale)]

\* get_overview()["venues"], by venue.
get_overview(rows, is_stale) ==
    [v \in DOMAIN latest_current_map(rows) |->
        VenueEntry(v, latest_current_map(rows)[v], SuccessTs(rows, v), is_stale)]

InitOverview ==
    /\ pf_call \in [fn : {"get_overview"},
                    rows : UNION {[1..n -> SnapshotRows] : n \in 0..MaxSnapRows},
                    is_stale : BOOLEAN]
    /\ pf_ret = None

OverviewCall ==
    /\ pf_call.fn = "get_overview"
    /\ pf_ret = None
    /\ pf_ret' = Some(get_overview(pf_call.rows, pf_call.is_stale))
    /\ UNCHANGED <<pf_call, nonPf>>

OverviewInit == PfOthersIdle /\ InitOverview

NextOverview == OverviewCall

SpecOverview == OverviewInit /\ [][NextOverview]_vars

\* Row i is the venue's latest among the rows with ids in among: no row of
\* the venue has a higher ts_utc, or the same ts_utc and a higher id.
IsLatest(rows, among, i) ==
    /\ i \in among
    /\ \A j \in among :
          rows[j].venue = rows[i].venue =>
              \/ rows[j].ts_utc < rows[i].ts_utc
              \/ rows[j].ts_utc = rows[i].ts_utc /\ j <= i

NoMetrics(row) ==
    \A f \in {"last_price", "spread_bps", "quote_volume_24h", "depth_1pct_usdt_bid",
              "depth_1pct_usdt_ask", "slip_bps_buy_n2", "slip_bps_sell_n2"} :
        IsNone(row[f])

\* C30: the overview has one entry for each venue with a row, taken from
\* the venue's latest row (highest ts_utc, then highest id): its time and
\* price are that row's; when that row is missing_market and holds no
\* metrics the status is "down" and price, volume, spread, depth and
\* slippage are absent, whatever older rows hold; and last_success_ts_utc is
\* the ts_utc of the venue's latest row that is not missing_market, absent
\* when there is none.
C30_Theorem ==
    (pf_call # <<>> /\ pf_call.fn = "get_overview" /\ pf_ret # None) =>
        LET rows == pf_call.rows
            venues == Val(pf_ret)
            ok == {i \in DOMAIN rows : ~rows[i].missing_market}
        IN  /\ DOMAIN venues = {rows[i].venue : i \in DOMAIN rows}
            /\ \A i \in DOMAIN rows :
                  IsLatest(rows, DOMAIN rows, i) =>
                    LET e == venues[rows[i].venue]
                    IN  /\ e.snapshot_ts_utc = Some(rows[i].ts_utc)
                        /\ e.missing_market = rows[i].missing_market
                        /\ e.last_price = rows[i].last_price
                        /\ e.spread_bps = rows[i].spread_bps
                        /\ e.quote_volume_24h = rows[i].quote_volume_24h
                        /\ (rows[i].missing_market /\ NoMetrics(rows[i])) =>
                              /\ e.status = "down"
                              /\ IsNone(e.last_price) /\ IsNone(e.spread_bps)
                              /\ IsNone(e.quote_volume_24h)
                              /\ IsNone(e.depth_1pct_total_usdt)
                              /\ IsNone(e.slip_bps_n2)
                        /\ e.last_success_ts_utc # None =>
                              \E j \in ok : /\ IsLatest(rows, ok, j)
                                            /\ rows[j].venue = rows[i].venue
                                            /\ e.last_success_ts_utc = Some(rows[j].ts_utc)
                        /\ e.last_success_ts_utc = None =>
                              \A j \in ok : rows[j].venue # rows[i].venue

\* An older complete row, then a missing_market row with the same ts_utc
\* and a higher id: down, no price, last success at the older row.
C30_Witness ==
    /\ pf_call # <<>> /\ pf_call.fn = "get_overview"
    /\ pf_call.rows = <<FullRow("okx", 1), FullRow("okx", MaxTs), MissingRow("okx", MaxTs)>>
    /\ pf_ret # None
    /\ Val(pf_ret)["okx"].status = "down"
    /\ Val(pf_ret)["okx"].last_price = None
    /\ Val(pf_ret)["okx"].last_success_ts_utc = Some(MaxTs)
\* ======================================================================
\* run_once_cycle: steps 3 to 5 (save_snapshot, compute_baselines,
\* run_all_checks with save_alert) over the stored tables
\* ======================================================================
MaxCycleRuns == 2
BaselineSpan == 10     \* config.baseline_days, in clock units
VolumeSpan == 5        \* the 7 days of get_recent_volume_data, in clock units

\* config.venues, in file order (names as token sequences)
CyVenues == <<<<"binance">>, <<"okx">>>>

CyVenueSet == {CyVenues[k] : k \in DOMAIN CyVenues}

\* The columns of metrics_snapshot that save_snapshot fills and the baseline
\* and volume queries read.
SlipColumn(impact) == IF IsNone(impact) THEN None ELSE Val(impact).slip_bps

snapshot_row(snap) ==
    [venue |-> snap.venue, ts_utc |-> snap.ts_utc,
     missing_market |-> snap.missing_market,
     quote_volume_24h |->
        IF IsNone(snap.ticker) THEN None ELSE Val(snap.ticker).quote_volume_24h,
     depth_1pct_usdt_bid |->
        IF IsNone(snap.orderbook) THEN None ELSE Val(snap.orderbook).depth_1pct_usdt_bid,
     depth_1pct_usdt_ask |->
        IF IsNone(snap.orderbook) THEN None ELSE Val(snap.orderbook).depth_1pct_usdt_ask,
     spread_bps |->
        IF IsNone(snap.orderbook) THEN None ELSE Val(snap.orderbook).spread_bps,
     slip_bps_buy_n2 |->
        IF IsNone(snap.orderbook) THEN None
        ELSE SlipColumn(Val(snap.orderbook).impact_buy_n2),
     slip_bps_sell_n2 |->
        IF IsNone(snap.orderbook) THEN None
        ELSE SlipColumn(Val(snap.orderbook).impact_sell_n2)]

\* save_snapshot for the venues in order: the table after the inserts.
RECURSIVE SaveSnapshots(_, _, _)
SaveSnapshots(table, snapshots, k) ==
    IF k > Len(CyVenues) THEN table
    ELSE SaveSnapshots(Append(table, snapshot_row(snapshots[CyVenues[k]])),
                       snapshots, k + 1)

\* The ids of the rows a query returns, ascending; ids ascend with ts_utc in
\* every table of this model, so this is ORDER BY ts_utc ASC.
RECURSIVE IdsWhere(_, _, _)
IdsWhere(table, keep(_), k) ==
    IF k > Len(table) THEN <<>>
    ELSE (IF keep(table[k]) THEN <<k>> ELSE <<>>) \o IdsWhere(table, keep, k + 1)

baseline_ids_before_cycle(table, venue, days, t) ==
    LET keep(r) == /\ r.venue = venue /\ ~r.missing_market
                   /\ r.ts_utc >= t - days /\ r.ts_utc < t
    IN  IdsWhere(table, keep, 1)

\* get_baseline_data: WHERE venue = ? AND missing_market = 0 AND
\* ts_utc >= datetime('now', '-N days')
baseline_ids(table, venue, days, t) ==
    LET keep(r) == r.venue = venue /\ ~r.missing_market /\ r.ts_utc >= t - days
    IN  IdsWhere(table, keep, 1)

\* get_recent_volume_data: the same with quote_volume_24h IS NOT NULL
volume_ids(table, venue, days, t) ==
    LET keep(r) == /\ r.venue = venue /\ ~r.missing_market
                   /\ ~IsNone(r.quote_volume_24h) /\ r.ts_utc >= t - days
    IN  IdsWhere(table, keep, 1)

\* compute_baselines(storage, venue, symbol, baseline_days) at time t, with
\* the ids of its samples on record.
cycle_baseline(table, venue, t) ==
    LET ids == baseline_ids(table, venue, BaselineSpan, t)
        vids == volume_ids(table, venue, VolumeSpan, t)
    IN  [baseline |-> compute_baselines([k \in DOMAIN ids |-> table[ids[k]]],
                                        [k \in DOMAIN vids |->
                                            table[vids[k]].quote_volume_24h]),
         sample_ids |-> {ids[k] : k \in DOMAIN ids}]

\* A database that has run for a while: one row too old for the baseline,
\* then MIN_BASELINE_SAMPLES rows of binance whose medians are 10.
HistoryRow(ts) ==
    [venue |-> <<"binance">>, ts_utc |-> ts, missing_market |-> FALSE,
     quote_volume_24h |-> Some(10),
     depth_1pct_usdt_bid |-> Some(4), depth_1pct_usdt_ask |-> Some(6),
     spread_bps |-> Some(10), slip_bps_buy_n2 |-> Some(10),
     slip_bps_sell_n2 |-> Some(8)]

History ==
    [k \in 1..(MIN_BASELINE_SAMPLES + 1) |->
        IF k = 1 THEN HistoryRow(0 - (BaselineSpan + 2)) ELSE HistoryRow(0)]

\* What collect_all and enrich_snapshot hand to the rest of the cycle.
CycleSnapshots(v, ts) ==
    IF v = <<"binance">>
    THEN {Snap(v, ts, FALSE, Some(Ticker(Some(10))), Some(DepthBook)),
          Snap(v, ts, FALSE, Some(Ticker(Some(10))), Some(ShortBook(4, 30, 100))),
          Snap(v, ts, FALSE, Some(Ticker(Some(10))), Some(BareBook)),
          Snap(v, ts, TRUE, None, None)}
    ELSE {Snap(v, ts, FALSE, Some(Ticker(Some(10))), Some(CalmBook)),
          Snap(v, ts, FALSE, Some(Ticker(Some(10))), Some(ShortBook(1, 30, 100)))}

InitCycle ==
    /\ alert_counters = EmptyTable /\ alerts = EmptyTable /\ now = 0
    /\ thresholds = ConfiguredThresholds
    /\ lastRun = [seq |-> 0] /\ streak = EmptyTable /\ run3 = EmptyTable
    /\ cy_pc = "done"
    /\ metrics_snapshot \in {<<>>, History}
    /\ alert_rows = <<>>
    /\ cy = [seq |-> 0, snapshots |-> EmptyTable, snapshot_ids |-> EmptyTable,
             first_id |-> 0, baselines |-> EmptyTable, i |-> 0,
             all_alerts |-> <<>>, raised |-> FALSE]

nonCy == <<thresholds, lastRun, streak, run3, caVars, cvVars, rsVars, getVars,
           dmVars, recent, pfVars, evVars>>

\* run_once_cycle is entered; steps 1 and 2 yield one Snapshot per venue.
CyCollect ==
    /\ cy_pc = "done"
    /\ cy.seq < MaxCycleRuns
    /\ \E snapshots \in [CyVenueSet -> UNION {CycleSnapshots(v, now) : v \in CyVenueSet}] :
          /\ \A v \in CyVenueSet : snapshots[v] \in CycleSnapshots(v, now)
          /\ cy' = [seq |-> cy.seq + 1, snapshots |-> snapshots,
                    snapshot_ids |-> EmptyTable, first_id |-> 0,
                    baselines |-> EmptyTable, i |-> 0,
                    all_alerts |-> <<>>, raised |-> FALSE]
    /\ cy_pc' = "persist"
    /\ UNCHANGED <<alert_counters, alerts, now, metrics_snapshot, alert_rows, nonCy>>

\* Step 3: for venue_name, snap in snapshots.items(): save_snapshot
CyPersist ==
    /\ cy_pc = "persist"
    /\ metrics_snapshot' = SaveSnapshots(metrics_snapshot, cy.snapshots, 1)
    /\ cy' = [cy EXCEPT !.snapshot_ids =
                            [v \in CyVenueSet |->
                                Len(metrics_snapshot)
                                  + (CHOOSE k \in DOMAIN CyVenues : CyVenues[k] = v)],
                        !.first_id = Len(metrics_snapshot) + 1]
    /\ cy_pc' = "baseline"
    /\ UNCHANGED <<alert_counters, alerts, now, alert_rows, nonCy>>

\* Step 4: for every configured venue, compute_baselines and save_baseline
CyBaseline ==
    /\ cy_pc = "baseline"
    /\ cy' = [cy EXCEPT !.baselines =
                            [v \in CyVenueSet |-> cycle_baseline(metrics_snapshot, v, now)],
                        !.i = 1]
    /\ cy_pc' = "detect"
    /\ UNCHANGED <<alert_counters, alerts, now, metrics_snapshot, alert_rows, nonCy>>

\* Step 5, one venue: run_all_checks, then save_alert(alert,
\* snapshot_ids.get(venue_name)) for every Alert returned, then
\* all_alerts.extend(venue_alerts).
CyDetect ==
    /\ cy_pc = "detect"
    /\ \E v \in {CyVenues[cy.i]} :
       \E res \in {run_all_checks(cy.snapshots[v], cy.baselines[v].baseline,
                                  thresholds, alert_counters, alerts,
                                  DedupeWindow, now)} :
          /\ alert_counters' = res.tbl
          /\ alerts' = IF res.raised THEN alerts ELSE SaveAll(alerts, res.returned, now)
          /\ alert_rows' = IF res.raised THEN alert_rows
                           ELSE alert_rows \o
                                [k \in DOMAIN res.returned |->
                                    [dedupe_key |-> res.returned[k].dedupe_key,
                                     alert_type |-> res.returned[k].alert_type,
                                     venue |-> res.returned[k].venue,
                                     snapshot_id |-> cy.snapshot_ids[v],
                                     cycle |-> cy.seq]]
          /\ cy' = [cy EXCEPT !.all_alerts = IF res.raised THEN @ ELSE @ \o res.returned,
                              !.raised = res.raised,
                              !.i = @ + 1]
          /\ cy_pc' = IF res.raised \/ cy.i = Len(CyVenues) THEN "done" ELSE "detect"
    /\ UNCHANGED <<now, metrics_snapshot, nonCy>>

\* Time passes between two cycles.
CyTick ==
    /\ cy_pc = "done"
    /\ now < MaxNow
    /\ now' = now + 1
    /\ UNCHANGED <<alert_counters, alerts, cyVars, nonCy>>

CycleInit == CaIdle /\ CvIdle /\ RsIdle /\ GetIdle /\ DmIdle /\ recent = <<>>
                /\ PfIdle /\ EvIdle /\ InitCycle

NextCycle == CyCollect \/ CyPersist \/ CyBaseline \/ CyDetect \/ CyTick

SpecCycle == CycleInit /\ [][NextCycle]_vars

\* The baselines of the cycle are there.
BaselinesComputed == cy_pc = "detect" \/ (cy_pc = "done" /\ cy.seq > 0)

\* C31 as stated: the samples of the baseline a cycle's Snapshot is judged
\* against are rows of earlier cycles only; the row of the Snapshot
\* collected in this cycle is not among them and is not counted in
\* sample_count.
C31_Claim ==
    BaselinesComputed =>
        \A v \in CyVenueSet :
            /\ cy.snapshot_ids[v] \notin cy.baselines[v].sample_ids
            /\ \A id \in cy.baselines[v].sample_ids : id < cy.first_id
            /\ cy.baselines[v].baseline.sample_count =
                  Len(baseline_ids_before_cycle(metrics_snapshot, v, BaselineSpan, now))
\* ---------------------------------------------------------------------------
\* The pass just made produced an Alert of rule r that the dedupe filter
\* dropped.
Suppressed(run, r) ==
    /\ AlertsOfType(run.produced, r) # {}
    /\ Key(r, run.venue, SymbolOf(run.venue)) \notin run.returned

\* C33: when a rule 1-3 counter reaches the threshold the pass leaves it at
\* 0 whether or not the Alert passes the dedupe filter; a suppressed Alert
\* is not saved and is not produced again by later passes unless the
\* counter reaches the threshold anew: every Alert of the rule, suppressed
\* or not, follows two breaches found since the rule's previous Alert.
C33_Theorem ==
    [][Stepped =>
        \A r \in Rules123 :
            LET v == lastRun'.venue
                k == Key(r, v, SymbolOf(v))
            IN  /\ AlertsOfType(lastRun'.produced, r) # {} =>
                      /\ get_consecutive_count(alert_counters', k) = 0
                      /\ streak[<<r, v>>] = 2 /\ streak'[<<r, v>>] = 0
                /\ Suppressed(lastRun', r) => RowsOf(alerts', k) = RowsOf(alerts, k)]_vars

\* The sixth breach in a row: the counter reached 3 again, the Alert was
\* dropped because the one saved three passes ago is inside the window.
C33_Witness ==
    \E r \in Rules123 :
        /\ Suppressed(lastRun, r)
        /\ CounterOf(r, lastRun.venue) = 0
        /\ Len(RowsOf(alerts, Key(r, lastRun.venue, SymbolOf(lastRun.venue)))) = 1
\* ---------------------------------------------------------------------------
\* The entry of key k in a counter table: empty when there is no row.
Entry(tbl, k) == IF k \in DOMAIN tbl THEN {tbl[k]} ELSE {}

\* The baseline median and the current metric rule r compares.
MedianOf(r, base) ==
    CASE r = "depth_shrink" -> base.depth_1pct_total_median
      [] r = "spread_widen" -> base.spread_bps_median
      [] r = "impact_cost_up" -> base.slip_bps_n2_median

MetricAbsent(r, ob) ==
    CASE r = "depth_shrink" ->
            IsNone(ob.depth_1pct_usdt_bid) \/ IsNone(ob.depth_1pct_usdt_ask)
      [] r = "spread_widen" -> IsNone(ob.spread_bps)
      [] r = "impact_cost_up" ->
            /\ IsNone(ob.impact_buy_n2) \/ IsNone(Val(ob.impact_buy_n2).slip_bps)
            /\ IsNone(ob.impact_sell_n2) \/ IsNone(Val(ob.impact_sell_n2).slip_bps)

\* The inputs make the evaluator of rule r return before the comparison.
ReturnsEarly(r, snap, base) ==
    \/ base.warming_up
    \/ IsNone(snap.orderbook)
    \/ IsNone(MedianOf(r, base))
    \/ MetricAbsent(r, Val(snap.orderbook))

\* C34: in the detection step of a venue, the counter row of a rule 1-3
\* whose evaluator returns early (baseline warming up, order book absent,
\* baseline median absent, current metric absent) is left as it was, and so
\* is every counter row that is not of this venue's rules 1-3.
C34_Theorem ==
    [][cy_pc = "detect" /\ cy'.i # cy.i =>
        LET v == CyVenues[cy.i]
            snap == cy.snapshots[v]
            base == cy.baselines[v].baseline
            own == {Key(r, v, SymbolOf(v)) : r \in Rules123}
        IN  /\ \A k \in (DOMAIN alert_counters \cup DOMAIN alert_counters') \ own :
                  Entry(alert_counters', k) = Entry(alert_counters, k)
            /\ \A r \in Rules123 :
                  ReturnsEarly(r, snap, base) =>
                      Entry(alert_counters', Key(r, v, SymbolOf(v)))
                        = Entry(alert_counters, Key(r, v, SymbolOf(v)))]_vars

\* Both venues have been judged: the depth of binance, whose count
\* stands above 0, was absent in this cycle, and okx was judged after it.
C34_Witness ==
    /\ cy_pc = "done" /\ cy.seq > 0 /\ ~cy.raised
    /\ cy.snapshots[<<"binance">>].orderbook = Some(BareBook)
    /\ ~cy.baselines[<<"binance">>].baseline.warming_up
    /\ get_consecutive_count(alert_counters,
           Key("depth_shrink", <<"binance">>, SymbolOf(<<"binance">>))) > 0
\* ---------------------------------------------------------------------------
\* C35: between the evaluations of a process that started on an empty
\* counter table, every stored count is 0, 1 or 2: no count rests at or
\* above CONSECUTIVE_THRESHOLD.
C35_Theorem ==
    \A k \in DOMAIN alert_counters :
        alert_counters[k] \in 0..(CONSECUTIVE_THRESHOLD - 1)

\* The pass just made counted the second breach in a row of a rule while
\* the counts of the other two rules stand at 0.
C35_Witness ==
    \E r \in lastRun.breach :
        /\ CounterOf(r, lastRun.venue) = CONSECUTIVE_THRESHOLD - 1
        /\ \A q \in Rules123 \ {r} :
              /\ Key(q, lastRun.venue, SymbolOf(lastRun.venue)) \in DOMAIN alert_counters
              /\ CounterOf(q, lastRun.venue) = 0
\* ---------------------------------------------------------------------------
\* The rows the alerts table received in cycle n, in insertion order.
RowsOfCycle(n) ==
    LET InCycle(r) == r.cycle = n
    IN  SelectSeq(alert_rows, InCycle)

\* The number of rows of alert_rows that carry dedupe key k.
RowCount(k) == Cardinality({i \in DOMAIN alert_rows : alert_rows[i].dedupe_key = k})

\* C36: the rows the alerts table received in a cycle are, one for one and
\* in order, the Alerts run_all_checks returned in that cycle; each row
\* carries the id of the metrics_snapshot row that this cycle saved for the
\* Alert's own venue; no two rows of a cycle share rule and venue; and no
\* row was inserted for a key that had a row within the dedupe window.
C36_Theorem ==
    cy.seq > 0 /\ cy_pc \in {"detect", "done"} =>
        LET saved == RowsOfCycle(cy.seq)
        IN  /\ Len(saved) = Len(cy.all_alerts)
            /\ \A k \in DOMAIN saved :
                  /\ saved[k].dedupe_key = cy.all_alerts[k].dedupe_key
                  /\ saved[k].alert_type = cy.all_alerts[k].alert_type
                  /\ saved[k].venue = cy.all_alerts[k].venue
                  /\ saved[k].snapshot_id \in cy.first_id..Len(metrics_snapshot)
                  /\ metrics_snapshot[saved[k].snapshot_id].venue = saved[k].venue
                  /\ metrics_snapshot[saved[k].snapshot_id]
                        = snapshot_row(cy.snapshots[saved[k].venue])
            /\ \A i, j \in DOMAIN saved :
                  saved[i].alert_type = saved[j].alert_type
                     /\ saved[i].venue = saved[j].venue => i = j
            /\ \A k \in DOMAIN alerts : Len(alerts[k]) = RowCount(k)
            /\ Spaced(alerts, DedupeWindow)

\* The second cycle is over: okx raised an Alert in the first one and
\* again in this one, where it is inside the window and was dropped;
\* binance's Alert was saved with the id of binance's row of this cycle.
C36_Witness ==
    /\ cy_pc = "done" /\ cy.seq = 2 /\ ~cy.raised
    /\ Len(RowsOfCycle(1)) = 1
    /\ RowsOfCycle(1)[1].venue = <<"okx">>
    /\ Len(RowsOfCycle(2)) = 1
    /\ RowsOfCycle(2)[1].venue = <<"binance">>
    /\ RowsOfCycle(2)[1].snapshot_id = cy.first_id
    /\ cy.snapshots[<<"okx">>].orderbook = Some(ShortBook(1, 30, 100))
    /\ now <= DedupeWindow
\* ---------------------------------------------------------------------------
\* C37: when collect_all has returned, every work item of the batch has
\* run to its end: no future is running or queued, so no worker of a venue
\* reported as timed out is still at work, and none changes afterwards.
C37_Theorem ==
    ca_pc = "returned" =>
        \A v \in DOMAIN futures :
            /\ futures[v].state = "done"
            /\ ~IsNone(futures[v].finished)
            /\ Val(futures[v].finished) <= ca_clock

\* Returned with a venue reported as timed out whose worker ended only
\* after the waits were over, while the calling thread was in the shutdown.
C37_Witness ==
    /\ ca_pc = "returned"
    /\ \E v \in DOMAIN results :
          /\ TimedOut(v)
          /\ futures[v].state = "done"
          /\ Val(futures[v].finished) > wait_start
\* ---------------------------------------------------------------------------
\* The attempts that ended in an exception _get keeps: every retried one
\* but those answered with 429, which raise nothing.
Kept(k) == Transient(responses[k]) /\ Handling(responses[k]) = "retry"

\* C38 as stated: when all MAX_RETRIES attempts ended in a timeout, a
\* connection error, a 5xx or a 429, _get has raised the error of the most
\* recent attempt that raised one; it has returned nothing and has raised
\* nothing that is not the error of one of its attempts.
C38_Claim ==
    (/\ get_pc = "done"
     /\ Len(responses) = MAX_RETRIES
     /\ \A k \in DOMAIN responses : Transient(responses[k])) =>
        /\ ~IsNone(get_result)
        /\ Val(get_result).how = "raised"
        /\ \E k \in DOMAIN responses :
              /\ Val(get_result).what = responses[k]
              /\ \A j \in DOMAIN responses : Kept(j) => j <= k
\* ---------------------------------------------------------------------------
\* The main thread of run_daemon or run_once: every step but the signal.
MainThread ==
    \/ Enter \/ LoopTest \/ CycleStart \/ CycleStep \/ CycleReturn \/ CycleRaise
    \/ DaemonAfterCycle \/ WaitStep \/ DaemonFinally \/ OnceAfterCycle

\* The steps of a cycle come to an end and time.sleep(1) returns: the main
\* thread keeps taking its steps.
SpecDaemonFair == SpecDaemon /\ WF_vars(MainThread)

\* The finally block of run_daemon has run: daemon_status is "stopped" and
\* the store is closed.
DaemonStopped ==
    dm_mode = "run_daemon" /\ dm_pc = "stopped" /\ runtime.daemon_status = "stopped"

ShutdownRequested == dm_mode = "run_daemon" /\ _shutdown

\* With the flag set the wait loop counts no further second.
WaitEnds ==
    ShutdownRequested /\ dm_pc = "wait" =>
        /\ wait_left' = wait_left
        /\ dm_pc' \in {"wait", "loop_test"}

\* C39 as stated: once the flag is set no cycle is begun, the daemon comes
\* to its finally block, and the wait loop ends at its next step.
C39_Claim ==
    /\ ShutdownRequested ~> DaemonStopped
    /\ [][(ShutdownRequested /\ dm_pc' = "cycle") => dm_pc = "cycle"]_vars
    /\ [][WaitEnds]_vars

\* C39, amended: once the flag is set the daemon comes to its finally
\* block, which writes daemon_status = stopped and closes the store; no
\* loop test passes with the flag set, so no cycle is begun but the one
\* whose loop test had passed when the signal arrived; and the wait loop
\* counts no further second once the flag is set.
C39_Theorem ==
    /\ ShutdownRequested ~> DaemonStopped
    /\ [][(ShutdownRequested /\ dm_pc = "loop_test") => dm_pc' \in {"loop_test", "finally"}]_vars
    /\ [][(ShutdownRequested /\ dm_pc' = "cycle") => dm_pc \in {"cycle", "call"}]_vars
    /\ [](Cardinality({k \in DOMAIN starts : starts[k].at_start}) <= 1)
    /\ [][WaitEnds]_vars

\* The signal arrived during the wait that follows a cycle: the wait was
\* left with seconds to go and the daemon stopped after that one cycle.
C39_Witness ==
    /\ DaemonStopped /\ _shutdown
    /\ wait_left > 0
    /\ Len(starts) = 1 /\ ~starts[1].at_start
    /\ Len(ended) = 1
=============================================================================
